---- MODULE Spec2Model ----
(***************************************************************************)
(* Verification model of the voxel ray tracer: the integer AABB primitive, *)
(* the octree and dense scene stores with their ray traversals, the        *)
(* framebuffer's splittable parallel iterator, the render driver and the   *)
(* image exporter.                                                         *)
(*                                                                         *)
(* Conventions.                                                            *)
(*   - A 3-vector is a tuple <<x, y, z>>; axis a of the source (0, 1, 2)   *)
(*     is component a + 1.                                                 *)
(*   - Option<T> is a sequence of length 0 (None) or 1 (Some(v)).          *)
(*   - An f32 is a fixed-point integer counting units of 1/FP; the model   *)
(*     covers axis-aligned rays whose coordinates are multiples of 1/2,    *)
(*     for which every f32 operation of the source is exact.  Inf and      *)
(*     NaN are the IEEE-754 values that 1.0 / 0.0 and 0.0 * inf produce.   *)
(***************************************************************************)
EXTENDS Integers, Sequences, FiniteSets, TLC

VARIABLES
  box,        \* IAabb under test (AABB primitive)
  probe,      \* last AABB operation applied to box, with its result
  octree,     \* Octree { bb, nodes }
  inserted,   \* history: position -> voxel of the last insert that returned true
  calls,      \* number of insert calls made so far
  last,       \* last octree operation, with its arguments and result
  generator,  \* VoxelGenerator: terrain height of each column (x, y)
  scene_bb,   \* the box the scene stores are built over
  sparse,     \* Option<Octree> of the SparseStorage
  dense,      \* Option<Chunk> of the DenseStorage
  shot,       \* last scene operation, with its arguments and result
  pc,         \* where main is: render, rendered, export, done or panic
  fb,         \* Framebuffer { width, height, pixels }
  tasks,      \* the producers and iterators of the render's tasks, by range
  hits,       \* what scene.trace returns for the primary ray of each pixel
  yielded,    \* history: cell -> the (x, y) it was yielded with, in order
  img,        \* the RgbaImage export_image fills
  cursor,     \* number of iterations export_image's loops have made
  cli,        \* the parsed command line
  proc,       \* main: position, effects so far, results and exit status
  camera,     \* Camera
  rays        \* history: pixel (i, j) -> the rays get_ray returned for it

aabbVars == <<box, probe>>

octreeVars == <<octree, inserted, calls, last>>

sceneVars == <<generator, scene_bb, sparse, dense, shot>>

renderVars == <<pc, fb, tasks, hits, yielded, img, cursor>>

mainVars == <<cli, proc>>

cameraVars == <<camera, rays>>

vars == <<box, probe, octree, inserted, calls, last,
          generator, scene_bb, sparse, dense, shot,
          pc, fb, tasks, hits, yielded, img, cursor,
          cli, proc, camera, rays>>

(***************************************************************************)
(* Bounds of the model.                                                    *)
(***************************************************************************)
\* Largest half extent of a box the model builds.
MaxExtent == 2

\* Number of Octree::insert calls in one behaviour.
MaxInserts == 2

(***************************************************************************)
(* Fixed-point f32.                                                        *)
(***************************************************************************)
\* Units per 1.0: the DDA's entry offset 0.0001 is one unit.
FP == 10000

\* f32::INFINITY (1.0 / 0.0), larger than every finite value of the model.
Inf == 1000000000

\* f32::NAN (0.0 * inf): every comparison with it is false.
NaN == 0 - 2 * Inf

\* Lower end 0.01 of the t range both traversals pass to intersection.
T_MIN == 100

\* Offset 0.0001 by which Chunk::trace moves the entry point into the box.
ENTRY_EPS == 1

(***************************************************************************)
(* Option and vector helpers.                                              *)
(***************************************************************************)
None == <<>>

Some(v) == <<v>>

IsSome(o) == Len(o) = 1

Unwrap(o) == o[1]

Abs(n) == IF n < 0 THEN -n ELSE n

VAdd(a, b) == <<a[1] + b[1], a[2] + b[2], a[3] + b[3]>>

VSub(a, b) == <<a[1] - b[1], a[2] - b[2], a[3] - b[3]>>

VMul(a, b) == <<a[1] * b[1], a[2] * b[2], a[3] * b[3]>>

VScale(k, a) == <<k * a[1], k * a[2], k * a[3]>>

VDivInt(a, k) == <<a[1] \div k, a[2] \div k, a[3] \div k>>

MaxElement(a) ==
  IF a[1] >= a[2] /\ a[1] >= a[3] THEN a[1]
  ELSE IF a[2] >= a[3] THEN a[2] ELSE a[3]

\* Bit a (0, 1, 2) of an octant index.
Bit(idx, a) == (idx \div (2 ^ a)) % 2

(***************************************************************************)
(* IAabb: signed-integer axis-aligned bounding box.                        *)
(***************************************************************************)
IAabb(origin, extents) == [origin |-> origin, extents |-> extents]

min(bb) == VSub(bb.origin, bb.extents)

max(bb) == VAdd(bb.origin, bb.extents)

width(bb) == bb.extents[1] * 2

height(bb) == bb.extents[2] * 2

length(bb) == bb.extents[3] * 2

iter_x(bb) == (bb.origin[1] - bb.extents[1]) .. (bb.origin[1] + bb.extents[1] - 1)

iter_y(bb) == (bb.origin[2] - bb.extents[2]) .. (bb.origin[2] + bb.extents[2] - 1)

iter_z(bb) == (bb.origin[3] - bb.extents[3]) .. (bb.origin[3] + bb.extents[3] - 1)

\* The set of points bb.iter() produces.
IterPoints(bb) == iter_x(bb) \X iter_y(bb) \X iter_z(bb)

\* Mutant of index_of: the bounds check without the zero-exclusive shift.
index_of_unshifted(bb, pos) ==
  LET local_pos == VSub(pos, bb.origin)
      x == IF local_pos[1] > 0 THEN 1 ELSE 0
      y == IF local_pos[2] > 0 THEN 1 ELSE 0
      z == IF local_pos[3] > 0 THEN 1 ELSE 0
  IN IF \A a \in 1..3 : Abs(local_pos[a]) <= bb.extents[a]
     THEN Some(x + 2 * y + 4 * z)
     ELSE None

\* IAabb::index_of: octant index of pos, None when pos is out of bounds.
index_of(bb, pos) ==
  LET local_pos == VSub(pos, bb.origin)
      x == IF local_pos[1] > 0 THEN 1 ELSE 0
      y == IF local_pos[2] > 0 THEN 1 ELSE 0
      z == IF local_pos[3] > 0 THEN 1 ELSE 0
      xyz == x + 2 * y + 4 * z
      shifted == VSub(local_pos, <<1 - x, 1 - y, 1 - z>>)
  IN IF \A a \in 1..3 : Abs(shifted[a]) <= bb.extents[a]
     THEN Some(xyz)
     ELSE None

\* Mutant of octant: the offset signs are mirrored.
octant_mirrored(bb, idx) ==
  LET extents == VDivInt(bb.extents, 2)
      offset == <<1 - Bit(idx, 0) * 2, 1 - Bit(idx, 1) * 2, 1 - Bit(idx, 2) * 2>>
  IN IAabb(VAdd(bb.origin, VMul(extents, offset)), extents)

\* IAabb::octant: sub-box of octant idx, for an idx that passes the assert.
octant(bb, idx) ==
  LET extents == VDivInt(bb.extents, 2)
      offset == <<Bit(idx, 0) * 2 - 1, Bit(idx, 1) * 2 - 1, Bit(idx, 2) * 2 - 1>>
  IN IAabb(VAdd(bb.origin, VMul(extents, offset)), extents)

is_unit(bb) == MaxElement(bb.extents) = 1

\* Bitwise or of two non-negative integers.
RECURSIVE BitOr(_, _)
BitOr(a, b) ==
  IF a = 0 THEN b
  ELSE IF b = 0 THEN a
  ELSE (IF a % 2 = 1 \/ b % 2 = 1 THEN 1 ELSE 0) + 2 * BitOr(a \div 2, b \div 2)

\* Mutant of SmearRight: the lower bits are not filled.
SmearRightNoFill(x, k) == x

\* x | (x >> k) on a u32.
SmearRight(x, k) == BitOr(x, x \div (2 ^ k))

\* `pow2 += 1` on a u32 followed by `as i32`: 2^31 becomes i32::MIN.
IncAsI32(x) == IF x = 2147483647 THEN -2147483647 - 1 ELSE x + 1

\* IAabb::next_pow2: cube around the same origin, extent from bit twiddling.
next_pow2(bb) ==
  LET max_extent == MaxElement(bb.extents)
      p1 == SmearRight(max_extent, 1)
      p2 == SmearRight(p1, 2)
      p4 == SmearRight(p2, 4)
      p8 == SmearRight(p4, 8)
      p16 == SmearRight(p8, 16)
      pow2 == IncAsI32(p16)
  IN IAabb(bb.origin, VScale(pow2, <<1, 1, 1>>))

(***************************************************************************)
(* f32 arithmetic on fixed-point values with Inf and NaN.                  *)
(***************************************************************************)
IsNaN(x) == x = NaN

FGt(a, b) == ~IsNaN(a) /\ ~IsNaN(b) /\ a > b

FLt(a, b) == ~IsNaN(a) /\ ~IsNaN(b) /\ a < b

FGe(a, b) == ~IsNaN(a) /\ ~IsNaN(b) /\ a >= b

\* f32::max and f32::min return the other operand when one is NaN.
FMax(a, b) == IF IsNaN(a) THEN b ELSE IF IsNaN(b) THEN a ELSE IF a >= b THEN a ELSE b

FMin(a, b) == IF IsNaN(a) THEN b ELSE IF IsNaN(b) THEN a ELSE IF a <= b THEN a ELSE b

\* 1.0 / d for a direction component d in {-1, 0, 1} (+0.0 gives +inf).
DirInv(d) == IF d = 0 THEN Inf ELSE d

\* x * inv for a finite x and inv in {-1, 1, Inf}.
MulInv(x, inv) ==
  IF inv = Inf
  THEN (IF x > 0 THEN Inf ELSE IF x < 0 THEN -Inf ELSE NaN)
  ELSE x * inv

\* x + t for a finite x and t finite or infinite.
FAdd(x, t) == IF t = Inf \/ t = -Inf \/ IsNaN(t) THEN t ELSE x + t

\* Vec3A of an IVec3 (as_vec3a), in fixed-point units.
as_vec3a(v) == VScale(FP, v)

Sign(n) == IF n > 0 THEN 1 ELSE IF n < 0 THEN -1 ELSE 0

RECURSIVE Gcd(_, _)
Gcd(a, b) == IF b = 0 THEN a ELSE Gcd(b, a % b)

\* Vec3A::normalize.  The unit vector of an axis-aligned d is exact; any
\* other direction is kept as the shortest integer vector along d, so that
\* two vectors normalize alike exactly when they point the same way.
normalize(d) ==
  LET g == Gcd(Abs(d[1]), Gcd(Abs(d[2]), Abs(d[3])))
  IN IF g = 0 THEN d ELSE <<d[1] \div g, d[2] \div g, d[3] \div g>>

\* Ray::new.
Ray(origin, dir) == [origin |-> origin, dir |-> normalize(dir)]

\* origin + t * dir for a finite distance t.
RayAt(ray, t) == VAdd(ray.origin, VScale(t, ray.dir))

\* One axis of the slab test: (near, far) ordered by the sign of 1 / dir.
SlabAxis(bb, ray, a) ==
  LET lo == as_vec3a(min(bb))[a]
      hi == as_vec3a(max(bb))[a]
      dir_inv == DirInv(ray.dir[a])
  IN IF FGe(dir_inv, 0)
     THEN <<MulInv(lo - ray.origin[a], dir_inv), MulInv(hi - ray.origin[a], dir_inv)>>
     ELSE <<MulInv(hi - ray.origin[a], dir_inv), MulInv(lo - ray.origin[a], dir_inv)>>

\* IAabb::intersection: the slab interval as Some([start, end]) or None.
intersection(bb, ray, range) ==
  LET xs == SlabAxis(bb, ray, 1)
      ys == SlabAxis(bb, ray, 2)
      zs == SlabAxis(bb, ray, 3)
      t_min == FMax(xs[1], ys[1])
      t_max == FMin(xs[2], ys[2])
      start == FMax(t_min, zs[1])
      end == FMin(t_max, zs[2])
  IN IF FGt(xs[1], ys[2]) \/ FGt(ys[1], xs[2]) THEN None
     ELSE IF FGt(t_min, zs[2]) \/ FGt(zs[1], t_max) THEN None
     ELSE IF FGt(start, range.end) \/ FLt(end, range.start) THEN None
     ELSE Some([start |-> start, end |-> end])

\* The range 0.01..f32::INFINITY.
TraceRange == [start |-> T_MIN, end |-> Inf]

\* Mutant of PlaneAxis: the centre plane must lie strictly ahead of the ray.
PlaneAxisStrictlyAhead(bb, ray, a) ==
  LET lo == as_vec3a(min(bb))
      hi == as_vec3a(max(bb))
      origin == as_vec3a(bb.origin)
      d == ray.dir[a + 1]
      diff == origin[a + 1] - ray.origin[a + 1]
  IN IF d # 0 /\ diff # 0 /\ ((d > 0) <=> (diff > 0))
     THEN LET t == diff * d
              i == RayAt(ray, t)
          IN IF \A b \in (1..3) \ {a + 1} : i[b] >= lo[b] /\ i[b] <= hi[b]
             THEN Some(Abs(t))
             ELSE None
     ELSE None

\* One axis (0, 1, 2) of plane_intersections: distance to the centre plane.
PlaneAxis(bb, ray, a) ==
  LET lo == as_vec3a(min(bb))
      hi == as_vec3a(max(bb))
      origin == as_vec3a(bb.origin)
      d == ray.dir[a + 1]
      diff == origin[a + 1] - ray.origin[a + 1]
  IN IF d # 0 /\ ((d > 0) <=> (diff >= 0))
     THEN LET t == diff * d
              i == RayAt(ray, t)
          IN IF \A b \in (1..3) \ {a + 1} : i[b] >= lo[b] /\ i[b] <= hi[b]
             THEN Some(Abs(t))
             ELSE None
     ELSE None

\* IAabb::plane_intersections: [x, y, z] indexed by axis 0, 1, 2.
plane_intersections(bb, ray) == [a \in 0..2 |-> PlaneAxis(bb, ray, a)]

(***************************************************************************)
(* Voxel and octree nodes.                                                 *)
(***************************************************************************)
Voxel(color) == [color |-> color]

EmptySlots == [i \in 0..7 |-> None]

Branch(branches) == [kind |-> "Branch", slots |-> branches]

Leaf(leaves) == [kind |-> "Leaf", slots |-> leaves]

\* Mutant of from_aabb: a box of extents up to 2 becomes a leaf.
from_aabb_wide_leaf(bb) ==
  IF MaxElement(bb.extents) <= 2 THEN Leaf(EmptySlots) ELSE Branch(EmptySlots)

\* Node::from_aabb.
from_aabb(bb) == IF is_unit(bb) THEN Leaf(EmptySlots) ELSE Branch(EmptySlots)

\* nodes[i] of the arena (the Vec is 0-based).
NodeAt(nodes, i) == nodes[i + 1]

\* Mutant of Octree_new: the box is used as given, without next_pow2.
Octree_new_unpadded(bb) ==
  [bb |-> bb, nodes |-> <<from_aabb(bb)>>]

\* Octree::new.
Octree_new(bb) ==
  LET padded == next_pow2(bb)
  IN [bb |-> padded, nodes |-> <<from_aabb(padded)>>]

\* Mutant of InsertLoop: branches take the octant from the sign bits alone
\* and only a leaf checks the bounds, after the path to it was created.
RECURSIVE InsertLoopLeafCheck(_, _, _, _, _)
InsertLoopLeafCheck(nodes, curr_idx, bb, pos, voxel) ==
  LET idx_opt == index_of(bb, pos)
      local_pos == VSub(pos, bb.origin)
      idx == (IF local_pos[1] > 0 THEN 1 ELSE 0) + (IF local_pos[2] > 0 THEN 2 ELSE 0)
             + (IF local_pos[3] > 0 THEN 4 ELSE 0)
      new_idx == Len(nodes)
      node == NodeAt(nodes, curr_idx)
      next_bb == octant(bb, idx)
  IN IF node.kind = "Branch"
     THEN IF IsSome(node.slots[idx])
          THEN InsertLoopLeafCheck(nodes, Unwrap(node.slots[idx]), next_bb, pos, voxel)
          ELSE InsertLoopLeafCheck(
                 Append([nodes EXCEPT ![curr_idx + 1].slots[idx] = Some(new_idx)],
                        from_aabb(next_bb)),
                 new_idx, next_bb, pos, voxel)
     ELSE IF ~IsSome(idx_opt) THEN [nodes |-> nodes, ret |-> FALSE]
     ELSE [nodes |-> [nodes EXCEPT ![curr_idx + 1].slots[idx] = Some(voxel)],
           ret |-> TRUE]

\* Mutant of InsertLoop: the descent keeps the parent's box (`bb =
\* bb.octant(idx)` only sizes the new node).
RECURSIVE InsertLoopStaleBox(_, _, _, _, _)
InsertLoopStaleBox(nodes, curr_idx, bb, pos, voxel) ==
  LET idx_opt == index_of(bb, pos)
      idx == Unwrap(idx_opt)
      new_idx == Len(nodes)
      node == NodeAt(nodes, curr_idx)
      next_bb == octant(bb, idx)
  IN IF ~IsSome(idx_opt) THEN [nodes |-> nodes, ret |-> FALSE]
     ELSE IF node.kind = "Branch"
     THEN IF IsSome(node.slots[idx])
          THEN InsertLoopStaleBox(nodes, Unwrap(node.slots[idx]), bb, pos, voxel)
          ELSE InsertLoopStaleBox(
                 Append([nodes EXCEPT ![curr_idx + 1].slots[idx] = Some(new_idx)],
                        from_aabb(next_bb)),
                 new_idx, bb, pos, voxel)
     ELSE [nodes |-> [nodes EXCEPT ![curr_idx + 1].slots[idx] = Some(voxel)],
           ret |-> TRUE]

\* Mutant of InsertLoop: a branch allocates a node for the octant on every
\* descent, whether or not the slot already holds one.
RECURSIVE InsertLoopAlwaysAllocates(_, _, _, _, _)
InsertLoopAlwaysAllocates(nodes, curr_idx, bb, pos, voxel) ==
  LET idx_opt == index_of(bb, pos)
      idx == Unwrap(idx_opt)
      new_idx == Len(nodes)
      node == NodeAt(nodes, curr_idx)
      next_bb == octant(bb, idx)
  IN IF ~IsSome(idx_opt) THEN [nodes |-> nodes, ret |-> FALSE]
     ELSE IF node.kind = "Branch"
     THEN InsertLoopAlwaysAllocates(
            Append([nodes EXCEPT ![curr_idx + 1].slots[idx] = Some(new_idx)],
                   from_aabb(next_bb)),
            new_idx, next_bb, pos, voxel)
     ELSE [nodes |-> [nodes EXCEPT ![curr_idx + 1].slots[idx] = Some(voxel)],
           ret |-> TRUE]

\* The loop of Octree::insert from node curr_idx with box bb; the result is
\* the arena and the returned flag.
RECURSIVE InsertLoop(_, _, _, _, _)
InsertLoop(nodes, curr_idx, bb, pos, voxel) ==
  LET idx_opt == index_of(bb, pos)
      idx == Unwrap(idx_opt)
      new_idx == Len(nodes)
      node == NodeAt(nodes, curr_idx)
      next_bb == octant(bb, idx)
  IN IF ~IsSome(idx_opt) THEN [nodes |-> nodes, ret |-> FALSE]
     ELSE IF node.kind = "Branch"
     THEN IF IsSome(node.slots[idx])
          THEN InsertLoop(nodes, Unwrap(node.slots[idx]), next_bb, pos, voxel)
          ELSE InsertLoop(
                 Append([nodes EXCEPT ![curr_idx + 1].slots[idx] = Some(new_idx)],
                        from_aabb(next_bb)),
                 new_idx, next_bb, pos, voxel)
     ELSE [nodes |-> [nodes EXCEPT ![curr_idx + 1].slots[idx] = Some(voxel)],
           ret |-> TRUE]

\* Octree::insert.
insert(tree, pos, voxel) ==
  LET r == InsertLoop(tree.nodes, 0, tree.bb, pos, voxel)
  IN [tree |-> [tree EXCEPT !.nodes = r.nodes], ret |-> r.ret]

\* Octree::set.
set(tree, pos, voxel_opt) ==
  IF IsSome(voxel_opt)
  THEN insert(tree, pos, Unwrap(voxel_opt))
  ELSE [tree |-> tree, ret |-> TRUE]

\* Mutant of GetLoop: the descent keeps the parent's box (`bb = octant_bb` lost).
RECURSIVE GetLoopKeepsBox(_, _, _, _)
GetLoopKeepsBox(nodes, curr_idx, bb, pos) ==
  LET idx_opt == index_of(bb, pos)
      idx == Unwrap(idx_opt)
      node == NodeAt(nodes, curr_idx)
  IN IF ~IsSome(idx_opt) THEN None
     ELSE IF node.kind = "Branch"
     THEN IF IsSome(node.slots[idx])
          THEN GetLoopKeepsBox(nodes, Unwrap(node.slots[idx]), bb, pos)
          ELSE None
     ELSE node.slots[idx]

\* The loop of Octree::get.
RECURSIVE GetLoop(_, _, _, _)
GetLoop(nodes, curr_idx, bb, pos) ==
  LET idx_opt == index_of(bb, pos)
      idx == Unwrap(idx_opt)
      node == NodeAt(nodes, curr_idx)
  IN IF ~IsSome(idx_opt) THEN None
     ELSE IF node.kind = "Branch"
     THEN IF IsSome(node.slots[idx])
          THEN GetLoop(nodes, Unwrap(node.slots[idx]), octant(bb, idx), pos)
          ELSE None
     ELSE node.slots[idx]

\* Octree::get.
get(tree, pos) == GetLoop(tree.nodes, 0, tree.bb, pos)

\* The loop of Octree::get once more, yielding the boxes octant_bb that it
\* computes, one per iteration that passes index_of.
RECURSIVE GetBoxes(_, _, _, _)
GetBoxes(nodes, curr_idx, bb, pos) ==
  LET idx_opt == index_of(bb, pos)
      idx == Unwrap(idx_opt)
      octant_bb == octant(bb, idx)
      node == NodeAt(nodes, curr_idx)
  IN IF ~IsSome(idx_opt) THEN <<>>
     ELSE IF node.kind = "Branch"
     THEN IF IsSome(node.slots[idx])
          THEN <<octant_bb>> \o GetBoxes(nodes, Unwrap(node.slots[idx]), octant_bb, pos)
          ELSE <<octant_bb>>
     ELSE <<octant_bb>>

\* idx ^= 1 << a.
FlipBit(idx, a) == IF Bit(idx, a) = 1 THEN idx - 2 ^ a ELSE idx + 2 ^ a

\* ray.origin.cmpgt(bb.origin.as_vec3a()).bitmask().
OriginOctant(bb, ray) ==
  LET c == as_vec3a(bb.origin)
  IN (IF ray.origin[1] > c[1] THEN 1 ELSE 0)
     + (IF ray.origin[2] > c[2] THEN 2 ELSE 0)
     + (IF ray.origin[3] > c[3] THEN 4 ELSE 0)

\* Option<f32> order of sort_by: None before Some, Some by value.
OptLe(a, b) == ~IsSome(a) \/ (IsSome(b) /\ Unwrap(a) <= Unwrap(b))

\* Stable insertion of axis a into a sequence of axes sorted by tests.
RECURSIVE InsertSorted(_, _, _)
InsertSorted(seq, a, tests) ==
  IF seq = <<>> THEN <<a>>
  ELSE IF OptLe(tests[seq[Len(seq)]], tests[a]) THEN Append(seq, a)
  ELSE Append(InsertSorted(SubSeq(seq, 1, Len(seq) - 1), a, tests), seq[Len(seq)])

\* Mutant of sort_dirs: the sorted axes are yielded twice over.
sort_dirs_repeated(tests) ==
  LET sorted == InsertSorted(InsertSorted(<<0>>, 1, tests), 2, tests)
  IN SelectSeq(sorted \o sorted, LAMBDA a : IsSome(tests[a]))

\* sort_dirs: the axes with a crossing, by ascending distance (stable).
sort_dirs(tests) ==
  LET sorted == InsertSorted(InsertSorted(<<0>>, 1, tests), 2, tests)
  IN SelectSeq(sorted, LAMBDA a : IsSome(tests[a]))

\* Node::trace and its loop: k is the position of the dirs iterator.
RECURSIVE NodeTrace(_, _, _, _)
RECURSIVE TraceLoop(_, _, _, _, _, _, _, _, _)
\* Mutant of TraceLoop: a failed recursion into an occupied child ends the
\* traversal of the parent (`?` in place of the `let ... else` that advances).
RECURSIVE TraceLoopGiveUp(_, _, _, _, _, _, _, _, _)
TraceLoopGiveUp(nodes, n, bb, ray, tests, dirs, k, idx, start_ray) ==
  LET node == NodeAt(nodes, n)
      slot == node.slots[idx]
      found == IF node.kind = "Branch"
               THEN IF IsSome(slot)
                    THEN NodeTrace(nodes, Unwrap(slot), octant(bb, idx), start_ray)
                    ELSE None
               ELSE slot
  IN IF IsSome(found) THEN found
     ELSE IF node.kind = "Branch" /\ IsSome(slot) THEN None
     ELSE IF k > Len(dirs) THEN None
     ELSE LET next_dir == dirs[k]
          IN TraceLoopGiveUp(nodes, n, bb, ray, tests, dirs, k + 1,
                             FlipBit(idx, next_dir),
                             [start_ray EXCEPT
                                !.origin = RayAt(ray, Unwrap(tests[next_dir]))])

\* Mutant of TraceLoop: a failed recursion into an occupied child uses up
\* one crossing of the parent.
RECURSIVE TraceLoopChildConsumes(_, _, _, _, _, _, _, _, _)
TraceLoopChildConsumes(nodes, n, bb, ray, tests, dirs, k, idx, start_ray) ==
  LET node == NodeAt(nodes, n)
      slot == node.slots[idx]
      found == IF node.kind = "Branch"
               THEN IF IsSome(slot)
                    THEN NodeTrace(nodes, Unwrap(slot), octant(bb, idx), start_ray)
                    ELSE None
               ELSE slot
      j == IF node.kind = "Branch" /\ IsSome(slot) THEN k + 1 ELSE k
  IN IF IsSome(found) THEN found
     ELSE IF j > Len(dirs) THEN None
     ELSE LET next_dir == dirs[j]
          IN TraceLoopChildConsumes(nodes, n, bb, ray, tests, dirs, j + 1,
                                    FlipBit(idx, next_dir),
                                    [start_ray EXCEPT
                                       !.origin = RayAt(ray, Unwrap(tests[next_dir]))])

TraceLoop(nodes, n, bb, ray, tests, dirs, k, idx, start_ray) ==
  LET node == NodeAt(nodes, n)
      slot == node.slots[idx]
      found == IF node.kind = "Branch"
               THEN IF IsSome(slot)
                    THEN NodeTrace(nodes, Unwrap(slot), octant(bb, idx), start_ray)
                    ELSE None
               ELSE slot
  IN IF IsSome(found) THEN found
     ELSE IF k > Len(dirs) THEN None
     ELSE LET next_dir == dirs[k]
          IN TraceLoop(nodes, n, bb, ray, tests, dirs, k + 1,
                       FlipBit(idx, next_dir),
                       [start_ray EXCEPT
                          !.origin = RayAt(ray, Unwrap(tests[next_dir]))])

NodeTrace(nodes, n, bb, ray) ==
  LET tests == plane_intersections(bb, ray)
  IN TraceLoop(nodes, n, bb, ray, tests, sort_dirs(tests), 1,
               OriginOctant(bb, ray), ray)

\* The loop of Node::trace once more, yielding the octant indices whose
\* slot of node n it examines, in order.
RECURSIVE TraceVisits(_, _, _, _, _, _, _, _, _)
TraceVisits(nodes, n, bb, ray, tests, dirs, k, idx, start_ray) ==
  LET node == NodeAt(nodes, n)
      slot == node.slots[idx]
      found == IF node.kind = "Branch"
               THEN IF IsSome(slot)
                    THEN NodeTrace(nodes, Unwrap(slot), octant(bb, idx), start_ray)
                    ELSE None
               ELSE slot
  IN IF IsSome(found) THEN <<idx>>
     ELSE IF k > Len(dirs) THEN <<idx>>
     ELSE LET next_dir == dirs[k]
          IN <<idx>> \o TraceVisits(nodes, n, bb, ray, tests, dirs, k + 1,
                                    FlipBit(idx, next_dir),
                                    [start_ray EXCEPT
                                       !.origin = RayAt(ray, Unwrap(tests[next_dir]))])

\* The loop of Node::trace a third time, yielding the pairs (node, octant)
\* of the recursions into an occupied child that returned no voxel, in
\* node n and below it.
RECURSIVE FailedIn(_, _, _, _)
RECURSIVE FailedLoop(_, _, _, _, _, _, _, _, _)
FailedLoop(nodes, n, bb, ray, tests, dirs, k, idx, start_ray) ==
  LET node == NodeAt(nodes, n)
      slot == node.slots[idx]
      entered == node.kind = "Branch" /\ IsSome(slot)
      found == IF entered
               THEN NodeTrace(nodes, Unwrap(slot), octant(bb, idx), start_ray)
               ELSE IF node.kind = "Branch" THEN None ELSE slot
      below == IF entered
               THEN FailedIn(nodes, Unwrap(slot), octant(bb, idx), start_ray)
               ELSE {}
      here == IF entered /\ ~IsSome(found) THEN {<<n, idx>>} ELSE {}
  IN IF IsSome(found) THEN below
     ELSE IF k > Len(dirs) THEN here \cup below
     ELSE LET next_dir == dirs[k]
          IN here \cup below \cup
               FailedLoop(nodes, n, bb, ray, tests, dirs, k + 1,
                          FlipBit(idx, next_dir),
                          [start_ray EXCEPT
                             !.origin = RayAt(ray, Unwrap(tests[next_dir]))])

FailedIn(nodes, n, bb, ray) ==
  LET tests == plane_intersections(bb, ray)
  IN FailedLoop(nodes, n, bb, ray, tests, sort_dirs(tests), 1,
                OriginOctant(bb, ray), ray)

\* The failed recursions of Octree::trace.
FailedRecursions(tree, ray) ==
  LET range == intersection(tree.bb, ray, TraceRange)
  IN IF ~IsSome(range) THEN {}
     ELSE FailedIn(tree.nodes, 0, tree.bb,
                   Ray(RayAt(ray, Unwrap(range).start), ray.dir))

\* The octants Octree::trace examines in the root.
RootVisits(tree, ray) ==
  LET range == intersection(tree.bb, ray, TraceRange)
      entry == Ray(RayAt(ray, Unwrap(range).start), ray.dir)
      tests == plane_intersections(tree.bb, entry)
  IN IF ~IsSome(range) THEN <<>>
     ELSE TraceVisits(tree.nodes, 0, tree.bb, entry, tests, sort_dirs(tests), 1,
                      OriginOctant(tree.bb, entry), entry)

\* Octree::trace.
Octree_trace(tree, ray) ==
  LET range == intersection(tree.bb, ray, TraceRange)
  IN IF ~IsSome(range) THEN None
     ELSE NodeTrace(tree.nodes, 0, tree.bb,
                    Ray(RayAt(ray, Unwrap(range).start), ray.dir))

(***************************************************************************)
(* VoxelGenerator.  The Perlin noise of a seed is a height per column      *)
(* (x, y); a generator is represented by that height map (terrain_z).      *)
(***************************************************************************)
HEIGHT == 100

WATER_BLUE == <<0, 80, 200>>

GRASS_GREEN == <<50, 170, 50>>

MOUNTAIN_GRAY == <<130, 130, 130>>

SNOW_WHITE == <<240, 240, 255>>

\* height_to_color: z / HEIGHT compared with 0.3, 0.6 and 0.8.
height_to_color(z) ==
  IF 10 * z < 3 * HEIGHT THEN WATER_BLUE
  ELSE IF 10 * z < 6 * HEIGHT THEN GRASS_GREEN
  ELSE IF 10 * z < 8 * HEIGHT THEN MOUNTAIN_GRAY
  ELSE SNOW_WHITE

\* Mutant of lookup: the colour is taken from the height of the position.
lookup_colored_by_pos(gen, pos) ==
  LET terrain_z == gen[<<pos[1], pos[2]>>]
  IN IF pos[3] >= 0 /\ pos[3] <= terrain_z
     THEN Some(Voxel(height_to_color(pos[3])))
     ELSE None

\* VoxelGenerator::lookup.
lookup(gen, pos) ==
  LET terrain_z == gen[<<pos[1], pos[2]>>]
  IN IF pos[3] >= 0 /\ pos[3] <= terrain_z
     THEN Some(Voxel(height_to_color(terrain_z)))
     ELSE None

(***************************************************************************)
(* Building the two scene stores from a generator.                         *)
(***************************************************************************)
\* A Range<i32> start..end as the sequence it yields.
RangeSeq(r) == [k \in 1..Cardinality(r) |-> (CHOOSE lo \in r : \A v \in r : lo <= v) + k - 1]

\* Mutant of cartesian_product: the second iterator is the outer loop.
RECURSIVE cartesian_product_transposed(_, _)
cartesian_product_transposed(a, b) ==
  IF b = <<>> THEN <<>>
  ELSE [k \in 1..Len(a) |-> <<a[k], Head(b)>>] \o cartesian_product_transposed(a, Tail(b))

\* Iterator::cartesian_product: for each item of a, in order, every item of b.
RECURSIVE cartesian_product(_, _)
cartesian_product(a, b) ==
  IF a = <<>> THEN <<>>
  ELSE [k \in 1..Len(b) |-> <<Head(a), b[k]>>] \o cartesian_product(Tail(a), b)

\* IAabb::iter as the sequence it yields.
iter(bb) ==
  LET xy == cartesian_product(RangeSeq(iter_x(bb)), RangeSeq(iter_y(bb)))
      xyz == cartesian_product(xy, RangeSeq(iter_z(bb)))
  IN [k \in 1..Len(xyz) |-> <<xyz[k][1][1], xyz[k][1][2], xyz[k][2]>>]

\* The for_each of Octree::from_voxels from the k-th point on; ok is FALSE
\* when the "voxel was out of bounds" assertion fired.
RECURSIVE FromVoxelsLoop(_, _, _, _)
FromVoxelsLoop(tree, gen, points, k) ==
  IF k > Len(points) THEN [tree |-> tree, ok |-> TRUE]
  ELSE LET r == set(tree, points[k], lookup(gen, points[k]))
       IN IF r.ret
          THEN FromVoxelsLoop(r.tree, gen, points, k + 1)
          ELSE [tree |-> r.tree, ok |-> FALSE]

\* Octree::from_voxels.
Octree_from_voxels(gen, bb) == FromVoxelsLoop(Octree_new(bb), gen, iter(bb), 1)

Chunk(data, bb) == [data |-> data, bb |-> bb]

\* DenseStorage::from_voxels.
DenseStorage_from_voxels(gen, bb) ==
  Chunk([k \in 1..Len(iter(bb)) |-> lookup(gen, iter(bb)[k])], bb)

(***************************************************************************)
(* Chunk::trace.                                                           *)
(***************************************************************************)
\* Vec3A::signum of a direction component: +0.0 has sign 1.
signum(d) == IF d < 0 THEN -1 ELSE 1

\* floor of a fixed-point value, in whole cells.
floor(x) == x \div FP

clamp(x, lo, hi) == IF x < lo THEN lo ELSE IF x > hi THEN hi ELSE x

\* a + b for values that may be infinite.
FSum(a, b) ==
  IF IsNaN(a) \/ IsNaN(b) THEN NaN
  ELSE IF a = Inf \/ a = -Inf THEN a
  ELSE IF b = Inf \/ b = -Inf THEN b
  ELSE a + b

\* The linear position Chunk::trace reads for the grid index curr_idx.
LinearIndex(bb, curr_idx) ==
  curr_idx[3] + width(bb) * (curr_idx[2] + height(bb) * curr_idx[1])

\* self.data.get(i) for a 0-based i.
DataGet(data, i) == IF i >= 0 /\ i < Len(data) THEN Some(data[i + 1]) ELSE None

\* Mutant of DdaLoop: the cell is tested after the step, so the cell of the
\* entry point is never read.
RECURSIVE DdaLoopSkipsEntry(_, _, _, _, _)
DdaLoopSkipsEntry(chunk, curr_idx, tmax, step, delta) ==
  LET a == IF FLt(tmax[1], tmax[2]) /\ FLt(tmax[1], tmax[3]) THEN 1
           ELSE IF FLt(tmax[2], tmax[3]) THEN 2
           ELSE 3
      next_idx == [curr_idx EXCEPT ![a] = curr_idx[a] + step[a]]
      got == DataGet(chunk.data, LinearIndex(chunk.bb, next_idx))
  IN IF next_idx[a] < 0 THEN None
     ELSE IF ~IsSome(got) THEN None
     ELSE IF IsSome(Unwrap(got)) THEN Unwrap(got)
     ELSE DdaLoopSkipsEntry(chunk, next_idx,
                            [tmax EXCEPT ![a] = FSum(tmax[a], delta[a])], step, delta)

\* The loop of Chunk::trace: read the cell, return its voxel, or step along
\* the axis with the smallest tmax (x before y before z).
RECURSIVE DdaLoop(_, _, _, _, _)
DdaLoop(chunk, curr_idx, tmax, step, delta) ==
  LET got == DataGet(chunk.data, LinearIndex(chunk.bb, curr_idx))
      a == IF FLt(tmax[1], tmax[2]) /\ FLt(tmax[1], tmax[3]) THEN 1
           ELSE IF FLt(tmax[2], tmax[3]) THEN 2
           ELSE 3
      next_idx == [curr_idx EXCEPT ![a] = curr_idx[a] + step[a]]
  IN IF ~IsSome(got) THEN None
     ELSE IF IsSome(Unwrap(got)) THEN Unwrap(got)
     ELSE IF next_idx[a] < 0 THEN None
     ELSE DdaLoop(chunk, next_idx,
                  [tmax EXCEPT ![a] = FSum(tmax[a], delta[a])], step, delta)

\* The loop of Chunk::trace once more, yielding the grid index curr_idx of
\* the read that returned a voxel, none when the trace returns none.
RECURSIVE DdaHitCell(_, _, _, _, _)
DdaHitCell(chunk, curr_idx, tmax, step, delta) ==
  LET got == DataGet(chunk.data, LinearIndex(chunk.bb, curr_idx))
      a == IF FLt(tmax[1], tmax[2]) /\ FLt(tmax[1], tmax[3]) THEN 1
           ELSE IF FLt(tmax[2], tmax[3]) THEN 2
           ELSE 3
      next_idx == [curr_idx EXCEPT ![a] = curr_idx[a] + step[a]]
  IN IF ~IsSome(got) THEN None
     ELSE IF IsSome(Unwrap(got)) THEN Some(curr_idx)
     ELSE IF next_idx[a] < 0 THEN None
     ELSE DdaHitCell(chunk, next_idx,
                     [tmax EXCEPT ![a] = FSum(tmax[a], delta[a])], step, delta)

\* The grid index at which Chunk::trace found its voxel.
Chunk_hit_cell(chunk, ray) ==
  LET range == intersection(chunk.bb, ray, TraceRange)
  IN IF ~IsSome(range) THEN None
     ELSE
       LET ray_start == RayAt(ray, Unwrap(range).start + ENTRY_EPS)
           lo == as_vec3a(min(chunk.bb))
           entry_pos == VSub(ray_start, lo)
           step == [a \in 1..3 |-> signum(ray.dir[a])]
           delta == [a \in 1..3 |-> IF ray.dir[a] = 0 THEN Inf ELSE FP]
           size == VSub(max(chunk.bb), min(chunk.bb))
           pos == [a \in 1..3 |-> clamp(floor(entry_pos[a]), 0, size[a])]
           tmax == [a \in 1..3 |->
                      MulInv(FP * pos[a] - entry_pos[a]
                               + FP * (IF step[a] > 0 THEN step[a] ELSE 0),
                             DirInv(ray.dir[a]))]
       IN DdaHitCell(chunk, pos, tmax, step, delta)

\* Chunk::trace.
Chunk_trace(chunk, ray) ==
  LET range == intersection(chunk.bb, ray, TraceRange)
  IN IF ~IsSome(range) THEN None
     ELSE
       LET ray_start == RayAt(ray, Unwrap(range).start + ENTRY_EPS)
           hi == as_vec3a(max(chunk.bb))
           lo == as_vec3a(min(chunk.bb))
           entry_pos == VSub(ray_start, lo)
           step == [a \in 1..3 |-> signum(ray.dir[a])]
           delta == [a \in 1..3 |-> IF ray.dir[a] = 0 THEN Inf ELSE FP]
           size == VSub(max(chunk.bb), min(chunk.bb))
           pos == [a \in 1..3 |-> clamp(floor(entry_pos[a]), 0, size[a])]
           tmax == [a \in 1..3 |->
                      MulInv(FP * pos[a] - entry_pos[a]
                               + FP * (IF step[a] > 0 THEN step[a] ELSE 0),
                             DirInv(ray.dir[a]))]
       IN DdaLoop(chunk, pos, tmax, step, delta)

(***************************************************************************)
(* u32 words.  A word is kept as its two 16-bit halves [hi, lo], so that   *)
(* the shifts and masks of the packing are computed bit for bit.           *)
(***************************************************************************)
U32(hi, lo) == [hi |-> hi, lo |-> lo]

\* A value below 2^16 widened to u32 (u8 as u32, integer literals).
AsU32(n) == U32(0, n)

\* Bitwise and of two non-negative integers.
RECURSIVE BitAnd(_, _)
BitAnd(a, b) ==
  IF a = 0 \/ b = 0 THEN 0
  ELSE (IF a % 2 = 1 /\ b % 2 = 1 THEN 1 ELSE 0) + 2 * BitAnd(a \div 2, b \div 2)

\* w << k on a u32, 0 < k < 32: the bits shifted out are lost.
Shl(w, k) ==
  IF k >= 16
  THEN U32((w.lo * 2 ^ (k - 16)) % 65536, 0)
  ELSE U32(((w.hi * 2 ^ k) % 65536) + (w.lo \div 2 ^ (16 - k)), (w.lo * 2 ^ k) % 65536)

\* w >> k on a u32, 0 < k < 32.
Shr(w, k) ==
  IF k >= 16
  THEN U32(0, w.hi \div 2 ^ (k - 16))
  ELSE U32(w.hi \div 2 ^ k, (w.lo \div 2 ^ k) + (w.hi % 2 ^ k) * 2 ^ (16 - k))

WordOr(a, b) == U32(BitOr(a.hi, b.hi), BitOr(a.lo, b.lo))

WordAnd(a, b) == U32(BitAnd(a.hi, b.hi), BitAnd(a.lo, b.lo))

\* `as u8`: the low byte.
AsU8(w) == w.lo % 256

(***************************************************************************)
(* Framebuffer, its producer and iterator, render_pixel and the exporter.  *)
(***************************************************************************)
\* Framebuffer::new: width * height cells, each AtomicU32::new(0).
Framebuffer_new(w, h) ==
  [width |-> w, height |-> h, pixels |-> [i \in 1..(w * h) |-> AsU32(0)]]

\* Framebuffer::pixel_mut: the 0-based index of the cell it refers to.
pixel_mut(buffer, x, y) == y * buffer.width + x

\* A producer or an iterator over the cells [start, end); pixel is the
\* PixelRef an iterator has yielded and the closure has not yet consumed.
ParIterProducer(start, end) ==
  [kind |-> "producer", start |-> start, end |-> end, pixel |-> None]

Iter(start, end) ==
  [kind |-> "iter", start |-> start, end |-> end, pixel |-> None]

PixelRef(x, y, value) == [x |-> x, y |-> y, value |-> value]

\* ParIterProducer::into_iter.
into_iter(p) == Iter(p.start, p.end)

\* Mutant of split_at: the right half starts one cell early.
split_at_overlapping(p, index) ==
  LET mid == p.start + index
  IN [ok |-> p.start < mid /\ mid < p.end,
      left |-> ParIterProducer(p.start, mid),
      right |-> ParIterProducer(mid - 1, p.end)]

\* ParIterProducer::split_at; ok is FALSE when the assertion fails.
split_at(p, index) ==
  LET mid == p.start + index
  IN [ok |-> p.start < mid /\ mid < p.end,
      left |-> ParIterProducer(p.start, mid),
      right |-> ParIterProducer(mid, p.end)]

\* Iter::next: the item, if any, and the iterator after the call.
next(it, buffer) ==
  IF it.start >= it.end THEN [ret |-> None, it |-> it]
  ELSE IF it.start >= Len(buffer.pixels) THEN [ret |-> None, it |-> it]
  ELSE [ret |-> Some(PixelRef(it.start % buffer.width, it.start \div buffer.width,
                              it.start)),
        it |-> [it EXCEPT !.start = it.start + 1]]

\* Iter::next_back: end is decremented before the cell is looked up.
next_back(it, buffer) ==
  IF it.start >= it.end THEN [ret |-> None, it |-> it]
  ELSE IF it.end - 1 >= Len(buffer.pixels)
       THEN [ret |-> None, it |-> [it EXCEPT !.end = it.end - 1]]
  ELSE [ret |-> Some(PixelRef((it.end - 1) % buffer.width,
                              (it.end - 1) \div buffer.width, it.end - 1)),
        it |-> [it EXCEPT !.end = it.end - 1]]

\* Mutant of PackColor: the alpha byte is left out.
PackColorNoAlpha(color) ==
  WordOr(WordOr(Shl(AsU32(color[1]), 24), Shl(AsU32(color[2]), 16)),
         Shl(AsU32(color[3]), 8))

\* render_pixel's word: x << 24 | y << 16 | z << 8 | 0xff.
PackColor(color) ==
  WordOr(WordOr(WordOr(Shl(AsU32(color[1]), 24), Shl(AsU32(color[2]), 16)),
                Shl(AsU32(color[3]), 8)),
         AsU32(255))

\* export_image's bytes of a word: [r, g, b, a].
UnpackRgba(current_pixel) ==
  <<AsU8(Shr(current_pixel, 24)),
    AsU8(Shr(WordAnd(current_pixel, U32(255, 0)), 16)),
    AsU8(Shr(WordAnd(current_pixel, U32(0, 65280)), 8)),
    AsU8(WordAnd(current_pixel, U32(0, 255)))>>

\* RgbaImage::new: every pixel zero.
RgbaImage_new(w, h) == [p \in (0..(w - 1)) \X (0..(h - 1)) |-> <<0, 0, 0, 0>>]

\* Mutant of ForEachDone: for_each returns without waiting for its tasks.
ForEachReturnsEarly(ts) == TRUE

\* for_each returns once every task it spawned has finished.
ForEachDone(ts) == ts = <<>>

(***************************************************************************)
(* Camera.                                                                 *)
(***************************************************************************)
\* s * v for an f32 s and a Vec3A v.
FScale(s, v) == [a \in 1..3 |-> (s * v[a]) \div FP]

\* Camera::defocus_disk_sample with the two random numbers p.
defocus_disk_sample(cam, p) ==
  VAdd(VAdd(as_vec3a(cam.center), FScale(p[1], cam.defocus_disk_u)),
       FScale(p[2], cam.defocus_disk_v))

\* Camera::get_ray; offset is the value of sample_square() and p the pair
\* of random numbers of defocus_disk_sample().
get_ray(cam, i, j, offset, p) ==
  LET pixel_sample ==
        VAdd(VAdd(as_vec3a(cam.pixel00_loc),
                  FScale(i * FP + offset[1], cam.pixel_delta_u)),
             FScale(j * FP + offset[2], cam.pixel_delta_v))
      ray_origin == IF cam.defocus_angle <= 0 THEN as_vec3a(cam.center)
                    ELSE defocus_disk_sample(cam, p)
      ray_direction == VSub(pixel_sample, ray_origin)
  IN Ray(ray_origin, ray_direction)

(***************************************************************************)
(* Reference sets the claims are stated with.                              *)
(***************************************************************************)
\* p is one of the points bb.iter() produces: origin - extents <= p < origin + extents.
InIter(bb, p) == p \in IterPoints(bb)

\* p lies in the range index_of accepts: origin - extents < p <= origin + extents.
InIndexRange(bb, p) ==
  \A a \in 1..3 : bb.origin[a] - bb.extents[a] < p[a] /\ p[a] <= bb.origin[a] + bb.extents[a]

(***************************************************************************)
(* Each specification exercises one component; the variables of the others *)
(* stay at these values.                                                   *)
(***************************************************************************)
AabbIdle == box = IAabb(<<0, 0, 0>>, <<1, 1, 1>>) /\ probe = [op |-> "none"]

OctreeIdle ==
  /\ octree = [bb |-> IAabb(<<0, 0, 0>>, <<2, 2, 2>>), nodes |-> <<>>]
  /\ inserted = <<>>
  /\ calls = 0
  /\ last = [op |-> "none"]

SceneIdle ==
  /\ generator = <<>>
  /\ scene_bb = IAabb(<<0, 0, 0>>, <<1, 1, 1>>)
  /\ sparse = None
  /\ dense = None
  /\ shot = [op |-> "none"]

RenderIdle ==
  /\ pc = "idle"
  /\ fb = [width |-> 0, height |-> 0, pixels |-> <<>>]
  /\ tasks = <<>>
  /\ hits = <<>>
  /\ yielded = <<>>
  /\ img = <<>>
  /\ cursor = 0

MainIdle ==
  /\ cli = <<>>
  /\ proc = [pc |-> "idle"]

CameraIdle ==
  /\ camera = <<>>
  /\ rays = <<>>

(***************************************************************************)
(* Specification SpecAabb: the AABB operations applied to bounded inputs.  *)
(***************************************************************************)
AabbOrigins == {<<0, 0, 0>>, <<1, -2, 3>>}

AabbExtents == (1..MaxExtent) \X (1..MaxExtent) \X (1..MaxExtent)

\* Boxes with odd and unequal extents, for next_pow2, octant and iter.
WideExtents == {<<3, 1, 5>>, <<7, 1, 1>>, <<1, 8, 2>>, <<5, 1, 3>>}

AabbBoxes == {IAabb(o, e) : o \in AabbOrigins, e \in AabbExtents \cup WideExtents}

\* Largest octant index passed to octant.
MaxOctantIdx == 9

\* Probe points: every lattice point up to two cells beyond the largest box.
ProbeOffsets == (-(MaxExtent + 2)) .. (MaxExtent + 2)

ProbePoints(bb) ==
  {VAdd(bb.origin, d) : d \in ProbeOffsets \X ProbeOffsets \X ProbeOffsets}

InitAabb ==
  /\ box \in AabbBoxes
  /\ probe = [op |-> "none"]
  /\ OctreeIdle
  /\ SceneIdle
  /\ RenderIdle
  /\ MainIdle
  /\ CameraIdle

\* One operation is applied to each input drawn by the initial state.
IndexOf(pos) ==
  /\ probe.op = "none"
  /\ probe' = [op |-> "index_of", pos |-> pos, ret |-> index_of(box, pos)]
  /\ UNCHANGED box
  /\ UNCHANGED <<octreeVars, sceneVars, renderVars, mainVars, cameraVars>>

NextPow2 ==
  /\ probe.op = "none"
  /\ probe' = [op |-> "next_pow2", ret |-> next_pow2(box)]
  /\ UNCHANGED box
  /\ UNCHANGED <<octreeVars, sceneVars, renderVars, mainVars, cameraVars>>

\* bb.octant(idx): the assert panics for idx > 0b111.
Octant(idx) ==
  /\ probe.op = "none"
  /\ probe' = [op |-> "octant", idx |-> idx, panicked |-> ~(idx <= 7),
               ret |-> IF idx <= 7 THEN Some(octant(box, idx)) ELSE None]
  /\ UNCHANGED box
  /\ UNCHANGED <<octreeVars, sceneVars, renderVars, mainVars, cameraVars>>

\* bb.iter() collected.
IterCollect ==
  /\ probe.op = "none"
  /\ probe' = [op |-> "iter", ret |-> iter(box)]
  /\ UNCHANGED box
  /\ UNCHANGED <<octreeVars, sceneVars, renderVars, mainVars, cameraVars>>

\* Unit vector of axis a (1..3) times s.
AxisDir(a, s) == [b \in 1..3 |-> IF b = a THEN s ELSE 0]

\* Axis-aligned rays around and inside bb: per axis the origin lies one
\* unit before the box, on its lower face, half a unit below its centre,
\* on its centre plane, on its upper face or one unit past it.
AabbRays(bb) ==
  LET along(a) == {FP * (min(bb)[a] - 1), FP * min(bb)[a],
                   FP * bb.origin[a] - FP \div 2, FP * bb.origin[a],
                   FP * max(bb)[a], FP * (max(bb)[a] + 1)}
  IN {Ray(o, AxisDir(a, sgn)) :
        o \in along(1) \X along(2) \X along(3), a \in 1..3, sgn \in {-1, 1}}

\* The t ranges passed: that of the traversals and a bounded one.
AabbRanges == {TraceRange, [start |-> T_MIN, end |-> FP + FP \div 2]}

\* bb.intersection(ray, range) for some ray and range.
Intersection ==
  /\ probe.op = "none"
  /\ \E ray \in AabbRays(box), range \in AabbRanges :
       probe' = [op |-> "intersection", ray |-> ray, range |-> range,
                 ret |-> intersection(box, ray, range)]
  /\ UNCHANGED box
  /\ UNCHANGED <<octreeVars, sceneVars, renderVars, mainVars, cameraVars>>

\* bb.plane_intersections(ray) for some ray.
PlaneIntersections ==
  /\ probe.op = "none"
  /\ \E ray \in AabbRays(box) :
       probe' = [op |-> "plane_intersections", ray |-> ray,
                 ret |-> plane_intersections(box, ray)]
  /\ UNCHANGED box
  /\ UNCHANGED <<octreeVars, sceneVars, renderVars, mainVars, cameraVars>>

NextAabb ==
  \/ \E pos \in ProbePoints(box) : IndexOf(pos)
  \/ PlaneIntersections
  \/ Intersection
  \/ NextPow2
  \/ \E idx \in 0..MaxOctantIdx : Octant(idx)
  \/ IterCollect

SpecAabb == InitAabb /\ [][NextAabb]_vars

(***************************************************************************)
(* Specification SpecOctree: Octree::new, then insert calls, then a read   *)
(* (get or trace).  A read leaves the tree as it is, so the calls that     *)
(* may follow it are those of the state before it: a behaviour ends there. *)
(***************************************************************************)
OctreeOrigins == {<<1, -2, 3>>}

OctreeBoxes == {IAabb(o, <<e, e, e>>) : o \in OctreeOrigins, e \in 1..MaxExtent}

\* Half side P of the padded cube.
CubeP(bb) == bb.extents[1]

\* Positions the calls use, relative to the cube's origin: four cells of one
\* x column (two leaves when P = 4), an off-axis cell, the far corner the
\* cube accepts, and two positions outside it.
OctreeOffsets(P) ==
  { <<0, 0, 0>>, <<1, 0, 0>>, <<P, 0, 0>>, <<1 - P, 0, 0>>, <<0, 1, 1>>,
    <<P, P, P>>, <<-P, -P, -P>>, <<P + 1, 0, 0>> }

OctreePositions(bb) == {VAdd(bb.origin, d) : d \in OctreeOffsets(CubeP(bb))}

Voxels == {Voxel(<<1, 1, 1>>), Voxel(<<2, 2, 2>>)}

\* The ray along axis a in direction s through the centre of the unit cell
\* (p - 1, p] of position p, starting one unit outside the cube.
RayThroughCell(bb, p, a, s) ==
  LET centre == [b \in 1..3 |-> FP * p[b] - FP \div 2]
      start == FP * bb.origin[a] - s * FP * (CubeP(bb) + 1)
  IN Ray([centre EXCEPT ![a] = start], AxisDir(a, s))

OctreeRays(bb) ==
  {RayThroughCell(bb, p, a, s) : p \in OctreePositions(bb), a \in 1..3, s \in {-1, 1}}

InitOctree ==
  /\ AabbIdle
  /\ SceneIdle
  /\ \E b \in OctreeBoxes : octree = Octree_new(b)
  /\ inserted = [p \in OctreePositions(octree.bb) |-> None]
  /\ calls = 0
  /\ last = [op |-> "new"]
  /\ RenderIdle
  /\ MainIdle
  /\ CameraIdle

Mutating == last.op \in {"new", "insert"}

Insert(pos, voxel) ==
  /\ Mutating
  /\ calls < MaxInserts
  /\ LET r == insert(octree, pos, voxel)
     IN /\ octree' = r.tree
        /\ last' = [op |-> "insert", pos |-> pos, voxel |-> voxel, ret |-> r.ret]
  /\ inserted' = IF InIndexRange(octree.bb, pos)
                 THEN [inserted EXCEPT ![pos] = Some(voxel)]
                 ELSE inserted
  /\ calls' = calls + 1
  /\ UNCHANGED <<aabbVars, sceneVars, renderVars, mainVars, cameraVars>>

Get(pos) ==
  /\ Mutating
  /\ last' = [op |-> "get", pos |-> pos, ret |-> get(octree, pos)]
  /\ UNCHANGED <<octree, inserted, calls>>
  /\ UNCHANGED <<aabbVars, sceneVars, renderVars, mainVars, cameraVars>>

Trace(ray) ==
  /\ Mutating
  /\ last' = [op |-> "trace", ray |-> ray, ret |-> Octree_trace(octree, ray)]
  /\ UNCHANGED <<octree, inserted, calls>>
  /\ UNCHANGED <<aabbVars, sceneVars, renderVars, mainVars, cameraVars>>

NextOctree ==
  \/ \E pos \in OctreePositions(octree.bb), voxel \in Voxels : Insert(pos, voxel)
  \/ \E pos \in OctreePositions(octree.bb) : Get(pos)
  \/ \E ray \in OctreeRays(octree.bb) : Trace(ray)

Spec == InitOctree /\ [][NextOctree]_vars

(***************************************************************************)
(* Specification SpecScene: a generator and a scene box, from which the    *)
(* sparse and the dense store are built (in either order), then a read of  *)
(* one store.  Specification SpecChunk: a chunk built by Chunk::new from   *)
(* given data, then a trace.                                               *)
(***************************************************************************)
\* RayTracer::new centres the scene box at the origin.
SceneOrigins == {<<0, 0, 0>>}

\* Scene boxes: 2 x 2 columns, cubic for z extent 1 and taller otherwise.
SceneBoxes == {IAabb(o, <<1, 1, e>>) : o \in SceneOrigins, e \in 1..MaxExtent}

Columns(bb) == iter_x(bb) \X iter_y(bb)

\* Terrain heights of a column: ground level, one cell above it, and a
\* height in the grass band above every scene box.
Heights == {0, 1, 45}

Generators(bb) == [Columns(bb) -> Heights]

\* Data handed to Chunk::new for a box of n cells: every cell lit with a
\* colour of its own, one cell lit, all cells but one lit, and a vector one
\* entry short.
CellVoxel(k) == Some(Voxel(<<k, k, k>>))

ChunkData(n) ==
  {[k \in 1..n |-> CellVoxel(k)]}
    \cup {[k \in 1..n |-> IF k = i THEN CellVoxel(k) ELSE None] : i \in 1..n}
    \cup {[k \in 1..n |-> IF k = i THEN None ELSE CellVoxel(k)] : i \in 1..n}
    \cup {[k \in 1..(n - 1) |-> None]}

\* Axis-aligned rays through the centres of the scene box's columns of
\* cells, from one unit outside the octree's padded cube.
SceneRays(bb) ==
  LET P == next_pow2(bb).extents[1]
      centres == [b \in 1..3 |->
                    {FP * c + FP \div 2 : c \in min(bb)[b] .. (max(bb)[b] - 1)}]
  IN {Ray([<<cx, cy, cz>> EXCEPT ![a] = FP * (bb.origin[a] - s * (P + 1))],
          AxisDir(a, s)) :
        <<cx, cy, cz>> \in centres[1] \X centres[2] \X centres[3],
        <<a, s>> \in (1..3) \X {-1, 1}}

InitScene ==
  /\ AabbIdle
  /\ OctreeIdle
  /\ scene_bb \in SceneBoxes
  /\ generator \in Generators(scene_bb)
  /\ sparse = None
  /\ dense = None
  /\ shot = [op |-> "none"]
  /\ RenderIdle
  /\ MainIdle
  /\ CameraIdle

\* The program is still building its stores (no read yet, no panic).
Building == shot.op \in {"none", "from_voxels", "new"}

\* SparseStorage::from_voxels; the assertion on set aborts the program.
SparseFromVoxels ==
  /\ Building
  /\ sparse = None
  /\ LET r == Octree_from_voxels(generator, scene_bb)
     IN IF r.ok
        THEN sparse' = Some(r.tree) /\ shot' = [op |-> "from_voxels"]
        ELSE sparse' = sparse /\ shot' = [op |-> "panic"]
  /\ UNCHANGED <<generator, scene_bb, dense>>
  /\ UNCHANGED <<aabbVars, octreeVars, renderVars, mainVars, cameraVars>>

\* DenseStorage::from_voxels.
DenseFromVoxels ==
  /\ Building
  /\ dense = None
  /\ dense' = Some(DenseStorage_from_voxels(generator, scene_bb))
  /\ shot' = [op |-> "from_voxels"]
  /\ UNCHANGED <<generator, scene_bb, sparse>>
  /\ UNCHANGED <<aabbVars, octreeVars, renderVars, mainVars, cameraVars>>

\* Chunk::new; the length assertion aborts the program.
ChunkNew(data) ==
  /\ Building
  /\ dense = None
  /\ IF Len(data) = width(scene_bb) * height(scene_bb) * length(scene_bb)
     THEN dense' = Some(Chunk(data, scene_bb)) /\ shot' = [op |-> "new"]
     ELSE dense' = dense /\ shot' = [op |-> "panic"]
  /\ UNCHANGED <<generator, scene_bb, sparse>>
  /\ UNCHANGED <<aabbVars, octreeVars, renderVars, mainVars, cameraVars>>

\* Octree::get on the sparse store.
SparseGet(pos) ==
  /\ Building
  /\ IsSome(sparse)
  /\ shot' = [op |-> "get", pos |-> pos, ret |-> get(Unwrap(sparse), pos)]
  /\ UNCHANGED <<generator, scene_bb, sparse, dense>>
  /\ UNCHANGED <<aabbVars, octreeVars, renderVars, mainVars, cameraVars>>

\* SparseStorage::trace (debug off).
SparseTrace(ray) ==
  /\ Building
  /\ IsSome(sparse)
  /\ shot' = [op |-> "sparse_trace", ray |-> ray,
              ret |-> Octree_trace(Unwrap(sparse), ray)]
  /\ UNCHANGED <<generator, scene_bb, sparse, dense>>
  /\ UNCHANGED <<aabbVars, octreeVars, renderVars, mainVars, cameraVars>>

\* DenseStorage::trace.
DenseTrace(ray) ==
  /\ Building
  /\ IsSome(dense)
  /\ shot' = [op |-> "dense_trace", ray |-> ray,
              ret |-> Chunk_trace(Unwrap(dense), ray)]
  /\ UNCHANGED <<generator, scene_bb, sparse, dense>>
  /\ UNCHANGED <<aabbVars, octreeVars, renderVars, mainVars, cameraVars>>

NextScene ==
  \/ SparseFromVoxels
  \/ DenseFromVoxels
  \/ \E pos \in IterPoints(scene_bb) : SparseGet(pos)
  \/ \E ray \in SceneRays(scene_bb) : SparseTrace(ray)
  \/ \E ray \in SceneRays(scene_bb) : DenseTrace(ray)

SpecScene == InitScene /\ [][NextScene]_vars

InitChunk ==
  /\ AabbIdle
  /\ OctreeIdle
  /\ scene_bb \in SceneBoxes
  /\ generator = <<>>
  /\ sparse = None
  /\ dense = None
  /\ shot = [op |-> "none"]
  /\ RenderIdle
  /\ MainIdle
  /\ CameraIdle

NextChunk ==
  \/ \E data \in ChunkData(Len(iter(scene_bb))) : ChunkNew(data)
  \/ \E ray \in SceneRays(scene_bb) : DenseTrace(ray)

SpecChunk == InitChunk /\ [][NextChunk]_vars

(***************************************************************************)
(* Specification SpecRender: RayTracer::render over a fresh framebuffer    *)
(* (the root producer split, turned into iterators and consumed by tasks   *)
(* in any interleaving), then export_image.                                *)
(***************************************************************************)
\* Largest framebuffer width and height.
MaxWidth == 3

MaxHeight == 2

\* Largest number of tasks (producers and iterators) alive at once.
MaxTasks == 3

Resolutions == (1..MaxWidth) \X (1..MaxHeight)

\* What the primary ray of a pixel hits: nothing, a terrain colour, black.
Palette ==
  << None, Some(Voxel(WATER_BLUE)), Some(Voxel(SNOW_WHITE)), Some(Voxel(<<0, 0, 0>>)),
     Some(Voxel(MOUNTAIN_GRAY)), Some(Voxel(GRASS_GREEN)) >>

\* Scenes as seen by the camera: the trace result of every pixel (x, y).
HitMaps(w, h) ==
  {[p \in (0..(w - 1)) \X (0..(h - 1)) |-> Palette[((2 * p[1] + 3 * p[2] + s) % 6) + 1]] :
     s \in 0..1}

InitRender ==
  /\ AabbIdle
  /\ OctreeIdle
  /\ SceneIdle
  /\ \E r \in Resolutions :
       /\ fb = Framebuffer_new(r[1], r[2])
       /\ hits \in HitMaps(r[1], r[2])
  /\ tasks = <<ParIterProducer(0, Len(fb.pixels))>>
  /\ yielded = [i \in 0..(Len(fb.pixels) - 1) |-> <<>>]
  /\ img = <<>>
  /\ cursor = 0
  /\ pc = "render"
  /\ MainIdle
  /\ CameraIdle

\* ts with its i-th task replaced by the tasks of seq.
ReplaceAt(ts, i, seq) == SubSeq(ts, 1, i - 1) \o seq \o SubSeq(ts, i + 1, Len(ts))

\* The scheduler splits a producer; a failed assertion aborts the program.
SplitAt(i, index) ==
  /\ pc # "panic"
  /\ tasks[i].kind = "producer"
  /\ Len(tasks) < MaxTasks
  /\ index <= tasks[i].end - tasks[i].start
  /\ LET r == split_at(tasks[i], index)
     IN IF r.ok
        THEN tasks' = ReplaceAt(tasks, i, <<r.left, r.right>>) /\ pc' = pc
        ELSE tasks' = tasks /\ pc' = "panic"
  /\ UNCHANGED <<fb, hits, yielded, img, cursor>>
  /\ UNCHANGED <<aabbVars, octreeVars, sceneVars, mainVars, cameraVars>>

\* A task starts to consume its producer.
IntoIter(i) ==
  /\ pc # "panic"
  /\ tasks[i].kind = "producer"
  /\ tasks' = [tasks EXCEPT ![i] = into_iter(tasks[i])]
  /\ UNCHANGED <<pc, fb, hits, yielded, img, cursor>>
  /\ UNCHANGED <<aabbVars, octreeVars, sceneVars, mainVars, cameraVars>>

\* The task takes the item r of its iterator, or finishes when there is none.
Consume(i, r) ==
  IF IsSome(r.ret)
  THEN /\ tasks' = [tasks EXCEPT ![i] = [r.it EXCEPT !.pixel = r.ret]]
       /\ yielded' = [yielded EXCEPT ![Unwrap(r.ret).value] =
                        Append(@, <<Unwrap(r.ret).x, Unwrap(r.ret).y>>)]
  ELSE /\ tasks' = ReplaceAt(tasks, i, <<>>)
       /\ yielded' = yielded

\* Iter::next called by the task.
Next(i) ==
  /\ pc # "panic"
  /\ tasks[i].kind = "iter"
  /\ tasks[i].pixel = None
  /\ Consume(i, next(tasks[i], fb))
  /\ UNCHANGED <<pc, fb, hits, img, cursor>>
  /\ UNCHANGED <<aabbVars, octreeVars, sceneVars, mainVars, cameraVars>>

\* Iter::next_back called by the task.
NextBack(i) ==
  /\ pc # "panic"
  /\ tasks[i].kind = "iter"
  /\ tasks[i].pixel = None
  /\ Consume(i, next_back(tasks[i], fb))
  /\ UNCHANGED <<pc, fb, hits, img, cursor>>
  /\ UNCHANGED <<aabbVars, octreeVars, sceneVars, mainVars, cameraVars>>

\* RayTracer::render_pixel on the item the task holds.
RenderPixel(i) ==
  /\ pc # "panic"
  /\ tasks[i].kind = "iter"
  /\ IsSome(tasks[i].pixel)
  /\ LET pixel == Unwrap(tasks[i].pixel)
         voxel == hits[<<pixel.x, pixel.y>>]
     IN fb' = IF IsSome(voxel)
              THEN [fb EXCEPT !.pixels[pixel.value + 1] = PackColor(Unwrap(voxel).color)]
              ELSE fb
  /\ tasks' = [tasks EXCEPT ![i].pixel = None]
  /\ UNCHANGED <<pc, hits, yielded, img, cursor>>
  /\ UNCHANGED <<aabbVars, octreeVars, sceneVars, mainVars, cameraVars>>

\* RayTracer::render returns the framebuffer to main.
RenderReturn ==
  /\ pc = "render"
  /\ ForEachDone(tasks)
  /\ pc' = "rendered"
  /\ UNCHANGED <<fb, tasks, hits, yielded, img, cursor>>
  /\ UNCHANGED <<aabbVars, octreeVars, sceneVars, mainVars, cameraVars>>

\* export_image is entered: a new image of the framebuffer's size.
ExportBegin ==
  /\ pc = "rendered"
  /\ img' = RgbaImage_new(fb.width, fb.height)
  /\ cursor' = 0
  /\ pc' = "export"
  /\ UNCHANGED <<fb, tasks, hits, yielded>>
  /\ UNCHANGED <<aabbVars, octreeVars, sceneVars, mainVars, cameraVars>>

\* One iteration of export_image's loops (x outermost): load, unpack, put.
ExportPixel ==
  /\ pc = "export"
  /\ cursor < fb.width * fb.height
  /\ LET x == cursor \div fb.height
         y == cursor % fb.height
         current_pixel == fb.pixels[pixel_mut(fb, x, y) + 1]
     IN img' = [img EXCEPT ![<<x, y>>] = UnpackRgba(current_pixel)]
  /\ cursor' = cursor + 1
  /\ UNCHANGED <<pc, fb, tasks, hits, yielded>>
  /\ UNCHANGED <<aabbVars, octreeVars, sceneVars, mainVars, cameraVars>>

\* img.save(path).unwrap(): the file is written, or the program panics.
Save(ok) ==
  /\ pc = "export"
  /\ cursor = fb.width * fb.height
  /\ pc' = IF ok THEN "done" ELSE "panic"
  /\ UNCHANGED <<fb, tasks, hits, yielded, img, cursor>>
  /\ UNCHANGED <<aabbVars, octreeVars, sceneVars, mainVars, cameraVars>>

NextRender ==
  \/ \E i \in 1..Len(tasks), index \in 0..Len(fb.pixels) : SplitAt(i, index)
  \/ \E i \in 1..Len(tasks) : IntoIter(i)
  \/ \E i \in 1..Len(tasks) : Next(i)
  \/ \E i \in 1..Len(tasks) : NextBack(i)
  \/ \E i \in 1..Len(tasks) : RenderPixel(i)
  \/ RenderReturn
  \/ ExportBegin
  \/ ExportPixel
  \/ \E ok \in BOOLEAN : Save(ok)

SpecRender == InitRender /\ [][NextRender]_vars

(***************************************************************************)
(* Specification SpecMain: one run of main, from the parsed command line   *)
(* to the exit of the process, with the scene construction and the render  *)
(* each taken as one step.                                                 *)
(***************************************************************************)
\* Largest number of components of a position flag.
MaxPositionLen == 4

PositionValues == {-1, 25}

Positions ==
  {None} \cup {Some(s) : s \in UNION {[1..n -> PositionValues] : n \in 1..MaxPositionLen}}

\* Parsed command lines: backend, size and position flags.
Clis ==
  [backend : {None, Some("Sparse"), Some("Dense")}, size : {1, 200}, position : Positions]

\* Mutant of position_match: a malformed position falls back to the default.
position_match_lenient(position, size) ==
  IF IsSome(position) /\ Len(Unwrap(position)) = 3
  THEN [ok |-> TRUE, position |-> <<Unwrap(position)[1], Unwrap(position)[2],
                                    Unwrap(position)[3]>>]
  ELSE [ok |-> TRUE, position |-> VScale(size, <<1, 1, 1>>)]

\* main's match on the position flag; ok is FALSE for `return Err(..)`.
position_match(position, size) ==
  IF IsSome(position) /\ Len(Unwrap(position)) = 3
  THEN [ok |-> TRUE, position |-> <<Unwrap(position)[1], Unwrap(position)[2],
                                    Unwrap(position)[3]>>]
  ELSE IF IsSome(position)
  THEN [ok |-> FALSE, position |-> <<>>]
  ELSE [ok |-> TRUE, position |-> VScale(size, <<1, 1, 1>>)]

\* Exit status of a process whose main returned Err, and of one that panicked.
EXIT_ERR == 1

EXIT_PANIC == 101

InitMain ==
  /\ AabbIdle
  /\ OctreeIdle
  /\ SceneIdle
  /\ RenderIdle
  /\ CameraIdle
  /\ cli \in Clis
  /\ proc = [pc |-> "start", camera_pos |-> None, effects |-> {},
             export_ret |-> "none", main_ret |-> "none", exit_code |-> None]

\* main up to the Config: the position match, then absolute(out)?, which
\* fails when the current directory cannot be read.
ParseArgs(abs_ok) ==
  /\ proc.pc = "start"
  /\ LET r == position_match(cli.position, cli.size)
     IN proc' = IF r.ok /\ abs_ok
                THEN [proc EXCEPT !.pc = "configured",
                                  !.camera_pos = Some(as_vec3a(r.position))]
                ELSE [proc EXCEPT !.pc = "exit", !.main_ret = "Err",
                                  !.exit_code = Some(EXIT_ERR)]
  /\ UNCHANGED cli
  /\ UNCHANGED <<aabbVars, octreeVars, sceneVars, renderVars, cameraVars>>

\* RayTracer::<backend>::new(config).
Construct ==
  /\ proc.pc = "configured"
  /\ proc' = [proc EXCEPT !.pc = "constructed",
                          !.effects = @ \cup {"scene_built"}]
  /\ UNCHANGED cli
  /\ UNCHANGED <<aabbVars, octreeVars, sceneVars, renderVars, cameraVars>>

\* ray_tracer.render().
Render ==
  /\ proc.pc = "constructed"
  /\ proc' = [proc EXCEPT !.pc = "rendered", !.effects = @ \cup {"rendered"}]
  /\ UNCHANGED cli
  /\ UNCHANGED <<aabbVars, octreeVars, sceneVars, renderVars, cameraVars>>

\* export_image(fb, output_path): img.save(path).unwrap() either writes the
\* file, and Ok(()) is returned, or panics inside export_image.
ExportImage(save_ok) ==
  /\ proc.pc = "rendered"
  /\ proc' = IF save_ok
             THEN [proc EXCEPT !.pc = "exported", !.export_ret = "Ok",
                               !.effects = @ \cup {"file_written"}]
             ELSE [proc EXCEPT !.pc = "exit", !.export_ret = "panic",
                               !.effects = @ \cup {"save_failed"},
                               !.exit_code = Some(EXIT_PANIC)]
  /\ UNCHANGED cli
  /\ UNCHANGED <<aabbVars, octreeVars, sceneVars, renderVars, cameraVars>>

\* main returns Ok(()).
MainReturn ==
  /\ proc.pc = "exported"
  /\ proc' = [proc EXCEPT !.pc = "exit", !.main_ret = "Ok", !.exit_code = Some(0)]
  /\ UNCHANGED cli
  /\ UNCHANGED <<aabbVars, octreeVars, sceneVars, renderVars, cameraVars>>

NextMain ==
  \/ \E abs_ok \in BOOLEAN : ParseArgs(abs_ok)
  \/ Construct
  \/ Render
  \/ \E save_ok \in BOOLEAN : ExportImage(save_ok)
  \/ MainReturn

SpecMain == InitMain /\ [][NextMain]_vars

(***************************************************************************)
(* Specification SpecVoxel: lookups in one column of a generator, for      *)
(* every terrain height the noise can give.                                *)
(***************************************************************************)
\* terrain_z = ((noise + 1) / 2 * HEIGHT) as i32 with noise in [-1, 1].
TerrainHeights == 0..HEIGHT

LookupColumn == <<0, 0>>

LookupPositions == {<<LookupColumn[1], LookupColumn[2], z>> : z \in (-1)..(HEIGHT + 1)}

InitVoxel ==
  /\ AabbIdle
  /\ OctreeIdle
  /\ generator \in [{LookupColumn} -> TerrainHeights]
  /\ scene_bb = IAabb(<<0, 0, 0>>, <<1, 1, 1>>)
  /\ sparse = None
  /\ dense = None
  /\ shot = [op |-> "none"]
  /\ RenderIdle
  /\ MainIdle
  /\ CameraIdle

\* generator.lookup(pos).
Lookup(pos) ==
  /\ shot' = [op |-> "lookup", pos |-> pos, ret |-> lookup(generator, pos)]
  /\ UNCHANGED <<generator, scene_bb, sparse, dense>>
  /\ UNCHANGED <<aabbVars, octreeVars, renderVars, mainVars, cameraVars>>

NextVoxel == \E pos \in LookupPositions : Lookup(pos)

SpecVoxel == InitVoxel /\ [][NextVoxel]_vars

(***************************************************************************)
(* Specification SpecCamera: get_ray called on a camera, the last two      *)
(* calls being kept.                                                       *)
(***************************************************************************)
\* Number of values a random f32 in [0, 1) is drawn from.
SampleSteps == 2

\* Values of rand::random::<f32>().
UnitSamples == {(k * FP) \div SampleSteps : k \in 0..(SampleSteps - 1)}

\* The cameras Camera::new builds for a 2 x 2 image with vertical_fov 90,
\* lookfrom (0, 0, 4), lookat (0, 0, 0), cam_up (0, 1, 0), focus_dist 2
\* and defocus_angle 0 or 90: w = (0, 0, 1), u = (1, 0, 0), v = (0, 1, 0),
\* a 4 x 4 viewport and a defocus radius of 0 or 2.
Cameras ==
  {[img_width |-> 2, img_height |-> 2, center |-> <<0, 0, 4>>,
    pixel00_loc |-> <<-1, 1, 2>>,
    pixel_delta_u |-> <<2 * FP, 0, 0>>, pixel_delta_v |-> <<0, -2 * FP, 0>>,
    defocus_angle |-> angle,
    defocus_disk_u |-> <<radius * FP, 0, 0>>,
    defocus_disk_v |-> <<0, radius * FP, 0>>] :
     <<angle, radius>> \in {<<0, 0>>, <<90 * FP, 2>>}}

InitCamera ==
  /\ AabbIdle
  /\ OctreeIdle
  /\ SceneIdle
  /\ RenderIdle
  /\ MainIdle
  /\ camera \in Cameras
  /\ rays = <<>>

\* The last two entries of a history.
Recent(h) == IF Len(h) > 2 THEN Tail(h) ELSE h

\* self.camera.get_ray(i, j), as render_pixel calls it.
GetRay(i, j, offset, p) ==
  /\ rays' = Recent(Append(rays, [i |-> i, j |-> j,
                                  ray |-> get_ray(camera, i, j, offset, p)]))
  /\ UNCHANGED camera
  /\ UNCHANGED <<aabbVars, octreeVars, sceneVars, renderVars, mainVars>>

NextCamera ==
  \E i \in 0..(camera.img_width - 1), j \in 0..(camera.img_height - 1),
     offset \in UnitSamples \X UnitSamples, p \in UnitSamples \X UnitSamples :
    GetRay(i, j, offset, p)

SpecCamera == InitCamera /\ [][NextCamera]_vars

(***************************************************************************)
(* Specification SpecUnit: Octree::new on the box of origin (0, 0, 0) and  *)
(* extents (1, 1, 1), then insert calls on the positions around the        *)
(* origin, on the corners the tree accepts and on the nearest it rejects.  *)
(***************************************************************************)
UnitBox == IAabb(<<0, 0, 0>>, <<1, 1, 1>>)

UnitPositions ==
  ((0..1) \X (0..1) \X (0..1))
    \cup {<<-1, -1, -1>>, <<2, 2, 2>>, <<-2, -2, -2>>, <<3, 3, 3>>}

InitUnit ==
  /\ AabbIdle
  /\ SceneIdle
  /\ octree = Octree_new(UnitBox)
  /\ inserted = [p \in UnitPositions |-> None]
  /\ calls = 0
  /\ last = [op |-> "new"]
  /\ RenderIdle
  /\ MainIdle
  /\ CameraIdle

NextUnit ==
  \/ \E pos \in UnitPositions, voxel \in Voxels : Insert(pos, voxel)
  \/ \E pos \in UnitPositions : Get(pos)

SpecUnit == InitUnit /\ [][NextUnit]_vars

(***************************************************************************)
(* Specification SpecNode: the loop of Node::trace on one node.  The       *)
(* crossing distances and the entry octant are drawn from the values       *)
(* plane_intersections and the cmpgt bitmask can give for rays of any      *)
(* direction: none to three crossings, with and without ties.              *)
(***************************************************************************)
NodeBox == IAabb(<<0, 0, 0>>, <<1, 1, 1>>)

\* Leaves of every occupancy, and the branch without children.
NodesTraced ==
  {Leaf([i \in 0..7 |-> IF i \in lit THEN Some(Voxel(<<1, 1, 1>>)) ELSE None]) :
     lit \in SUBSET (0..7)}
    \cup {Branch(EmptySlots)}

CrossingDistances == {None, Some(FP \div 2), Some(FP)}

InitNode ==
  /\ AabbIdle
  /\ SceneIdle
  /\ \E node \in NodesTraced : octree = [bb |-> NodeBox, nodes |-> <<node>>]
  /\ inserted = <<>>
  /\ calls = 0
  /\ last = [op |-> "new"]
  /\ RenderIdle
  /\ MainIdle
  /\ CameraIdle

\* node.trace(nodes, bb, ray) for a ray entering in octant idx with the
\* plane crossings tests.
TraceNode(tests, idx) ==
  /\ last.op = "new"
  /\ LET ray == Ray(as_vec3a(octree.bb.origin), <<0, 0, 0>>)
         dirs == sort_dirs(tests)
     IN last' = [op |-> "node_trace", tests |-> tests, idx |-> idx,
                 visits |-> TraceVisits(octree.nodes, 0, octree.bb, ray, tests,
                                        dirs, 1, idx, ray),
                 ret |-> TraceLoop(octree.nodes, 0, octree.bb, ray, tests,
                                   dirs, 1, idx, ray)]
  /\ UNCHANGED <<octree, inserted, calls>>
  /\ UNCHANGED <<aabbVars, sceneVars, renderVars, mainVars, cameraVars>>

NextNode ==
  \E tests \in [0..2 -> CrossingDistances], idx \in 0..7 : TraceNode(tests, idx)

SpecNode == InitNode /\ [][NextNode]_vars

(***************************************************************************)
(* Specification SpecPad: Octree::new on boxes of any shape and size, up   *)
(* to the largest extents an i32 holds, then next_pow2 of the box and      *)
(* inserts at positions the box's iter() produces.                         *)
(***************************************************************************)
\* Extents of the boxes padded: small cubes and slabs, the largest extent
\* whose padding fits an i32, and the extent 2^30.
PadExtents ==
  {<<1, 1, 1>>, <<2, 1, 3>>, <<3, 3, 3>>, <<1, 4, 1>>,
   <<2 ^ 30 - 1, 1, 1>>, <<2 ^ 30, 1, 1>>}

PadBoxes == {IAabb(<<0, 0, 0>>, e) : e \in PadExtents}

\* Positions of bb.iter(): per axis the first, the two around the origin
\* and the last.
PadPositions(bb) ==
  LET along(a) == {min(bb)[a], bb.origin[a] - 1, bb.origin[a], max(bb)[a] - 1}
  IN along(1) \X along(2) \X along(3)

InitPad ==
  /\ box \in PadBoxes
  /\ probe = [op |-> "none"]
  /\ octree = Octree_new(box)
  /\ inserted = <<>>
  /\ calls = 0
  /\ last = [op |-> "new"]
  /\ SceneIdle
  /\ RenderIdle
  /\ MainIdle
  /\ CameraIdle

\* octree.set(pos, Some(voxel)) as Octree::from_voxels calls it; the
\* assertion fires when it returns false.
SetIterPoint(pos, voxel) ==
  /\ last.op \in {"new", "set"}
  /\ calls < MaxInserts
  /\ LET r == set(octree, pos, Some(voxel))
     IN /\ octree' = r.tree
        /\ last' = [op |-> "set", pos |-> pos, voxel |-> voxel, ret |-> r.ret,
                    panicked |-> ~r.ret]
  /\ calls' = calls + 1
  /\ UNCHANGED inserted
  /\ UNCHANGED <<aabbVars, sceneVars, renderVars, mainVars, cameraVars>>

NextPad ==
  \/ \E pos \in PadPositions(box) : SetIterPoint(pos, Voxel(<<1, 1, 1>>))
  \/ NextPow2

SpecPad == InitPad /\ [][NextPad]_vars

(***************************************************************************)
(* Specification SpecInside: an octree and a chunk over the same box,      *)
(* traced by rays that start inside the box.                               *)
(***************************************************************************)
InsideBox == IAabb(<<0, 0, 0>>, <<1, 1, 1>>)

\* A row of cells along x, all inside the octree's padded cube.
InsidePositions == {<<-1, 0, 0>>, <<0, 0, 0>>, <<1, 0, 0>>, <<2, 0, 0>>}

\* Rays in the six axis directions from the centres of the two cells of the
\* box that lie on that row.
InsideRays ==
  {Ray(<<x, 0 - FP \div 2, 0 - FP \div 2>>, AxisDir(a, s)) :
     x \in {0 - FP \div 2, FP \div 2}, a \in 1..3, s \in {-1, 1}}

InitInside ==
  /\ AabbIdle
  /\ octree = Octree_new(InsideBox)
  /\ inserted = [p \in InsidePositions |-> None]
  /\ calls = 0
  /\ last = [op |-> "new"]
  /\ scene_bb = InsideBox
  /\ generator = <<>>
  /\ sparse = None
  /\ dense = None
  /\ shot = [op |-> "none"]
  /\ RenderIdle
  /\ MainIdle
  /\ CameraIdle

NextInside ==
  \/ \E pos \in InsidePositions : Insert(pos, Voxel(<<1, 1, 1>>))
  \/ \E ray \in InsideRays : Trace(ray)
  \/ \E data \in ChunkData(Len(iter(scene_bb))) : ChunkNew(data)
  \/ \E ray \in InsideRays : DenseTrace(ray)

SpecInside == InitInside /\ [][NextInside]_vars

(***************************************************************************)
(* C1.                                                                     *)
(***************************************************************************)
\* C1: the octree is a partial map from positions to voxels.  insert stores
\* exactly the positions of the padded cube (those index_of accepts at the
\* root); in every state get(pos) is the voxel most recently inserted at
\* pos, whatever was inserted elsewhere, and nothing for a position never
\* inserted or outside the cube.
C1_PartialMap ==
  /\ \A p \in OctreePositions(octree.bb) : get(octree, p) = inserted[p]
  /\ \A p \in OctreePositions(octree.bb) :
       ~InIndexRange(octree.bb, p) => get(octree, p) = None
  /\ last.op = "insert" => (last.ret <=> InIndexRange(octree.bb, last.pos))
  /\ last.op = "get" => last.ret = inserted[last.pos]

\* Witness: after an overwrite at one position, get returned the second voxel.
C1_Witness ==
  /\ last.op = "get"
  /\ calls = 2
  /\ last.ret = Some(Voxel(<<2, 2, 2>>))
  /\ Cardinality({p \in OctreePositions(octree.bb) : IsSome(inserted[p])}) = 1
  /\ Len(octree.nodes) > 1

(***************************************************************************)
(* C4.                                                                     *)
(***************************************************************************)
\* Ceiling of x / FP: the position whose unit cell (p - 1, p] holds x.
CellOf(x) == -((-x) \div FP)

MovingAxis(ray) == CHOOSE a \in 1..3 : ray.dir[a] # 0

\* Position of the k-th unit cell (k = 1 at the entry face) that a ray along
\* one axis passes inside the cube bb.
CellAlong(bb, ray, k) ==
  LET a == MovingAxis(ray)
      first == IF ray.dir[a] > 0 THEN min(bb)[a] + 1 ELSE max(bb)[a]
  IN [b \in 1..3 |-> IF b = a THEN first + ray.dir[a] * (k - 1)
                               ELSE CellOf(ray.origin[b])]

\* Voxel recorded for position p by the insert history.
Recorded(p) == IF p \in DOMAIN inserted THEN inserted[p] ELSE None

\* The cells, in entry order, of the cube that hold a voxel.
OccupiedAlong(bb, ray) ==
  {k \in 1..(2 * CubeP(bb)) : IsSome(Recorded(CellAlong(bb, ray, k)))}

\* The voxel of the first occupied unit cell along the ray, if any.
FirstOccupied(bb, ray) ==
  LET ks == OccupiedAlong(bb, ray)
  IN IF ks = {} THEN None
     ELSE Recorded(CellAlong(bb, ray, CHOOSE k \in ks : \A j \in ks : k <= j))

\* The ray starts outside the cube and enters it.
EntersCube(bb, ray) ==
  /\ IsSome(intersection(bb, ray, TraceRange))
  /\ \E a \in 1..3 : ray.origin[a] < as_vec3a(min(bb))[a]
                     \/ ray.origin[a] > as_vec3a(max(bb))[a]

\* C4: for an axis-aligned ray with half-integer transverse coordinates that
\* starts outside the root box and enters it, Octree::trace returns the voxel
\* of the first occupied unit cell along the ray (nothing when no cell of
\* its column is occupied).
C4_TraceFirstOccupied ==
  (last.op = "trace" /\ EntersCube(octree.bb, last.ray)) =>
    last.ret = FirstOccupied(octree.bb, last.ray)

\* Witness: two cells of the ray's column are occupied, with different
\* voxels, and trace returned the first one.
C4_Witness ==
  /\ last.op = "trace"
  /\ EntersCube(octree.bb, last.ray)
  /\ Cardinality(OccupiedAlong(octree.bb, last.ray)) = 2
  /\ \E j, k \in OccupiedAlong(octree.bb, last.ray) :
       Recorded(CellAlong(octree.bb, last.ray, j))
         # Recorded(CellAlong(octree.bb, last.ray, k))
  /\ IsSome(last.ret)
  /\ last.ret = FirstOccupied(octree.bb, last.ray)

(***************************************************************************)
(* C7.                                                                     *)
(***************************************************************************)
\* C7: insert with pos outside the padded cube returns false, and an insert
\* that returns false leaves the tree as it was: the arena, every branch
\* slot and every leaf slot are unchanged, so every get returns what it
\* returned before the call.
C7_RejectedInsertNoChange ==
  /\ [](last.op = "insert" /\ ~InIndexRange(octree.bb, last.pos) => last.ret = FALSE)
  /\ [][(last'.op = "insert" /\ last'.ret = FALSE) =>
          /\ octree' = octree
          /\ \A p \in OctreePositions(octree.bb) : get(octree', p) = get(octree, p)]_vars

\* Witness: an insert outside the cube was rejected on a tree that already
\* holds a voxel.
C7_Witness ==
  /\ last.op = "insert"
  /\ last.ret = FALSE
  /\ ~InIndexRange(octree.bb, last.pos)
  /\ Len(octree.nodes) > 1
  /\ \E p \in OctreePositions(octree.bb) : IsSome(inserted[p])

(***************************************************************************)
(* C6.                                                                     *)
(***************************************************************************)
\* C6 as claimed: index_of returns some index in [0,8) for every point of
\* bb.iter() and none for every point outside the box.
C6_IndexOfIterPoints ==
  probe.op = "index_of" =>
    IF InIter(box, probe.pos)
    THEN IsSome(probe.ret) /\ Unwrap(probe.ret) \in 0..7
    ELSE probe.ret = None

\* C6 amended: index_of returns some index in [0,8), with bit a set iff
\* p_a > origin_a, exactly for the points with origin - extents < p <=
\* origin + extents on every axis, and none for every other point: the
\* accepted local offsets reach extents_a - 1 on the negative side and
\* extents_a on the positive side.
C6_IndexOfShiftedRange ==
  probe.op = "index_of" =>
    IF InIndexRange(box, probe.pos)
    THEN /\ IsSome(probe.ret)
         /\ Unwrap(probe.ret) \in 0..7
         /\ \A a \in 0..2 :
              Bit(Unwrap(probe.ret), a) = 1 <=> probe.pos[a + 1] > box.origin[a + 1]
    ELSE probe.ret = None

\* Witness: index_of accepted the corner origin + extents, which bb.iter()
\* does not produce, and rejected nothing it should accept.
C6_Witness ==
  /\ probe.op = "index_of"
  /\ probe.pos = max(box)
  /\ probe.ret = Some(7)
  /\ ~InIter(box, probe.pos)

(***************************************************************************)
(* C2.                                                                     *)
(***************************************************************************)
\* C2: Octree::from_voxels(generator, bb) completes, and afterwards, for
\* every lattice point p that bb.iter() produces, octree.get(p) equals
\* generator.lookup(p): the same voxel, or nothing from both.
C2_FromVoxelsGetIsLookup ==
  /\ shot.op # "panic"
  /\ IsSome(sparse) =>
       \A p \in IterPoints(scene_bb) : get(Unwrap(sparse), p) = lookup(generator, p)
  /\ shot.op = "get" => shot.ret = lookup(generator, shot.pos)

\* Witness: over a non-cubic box whose columns have different colours and
\* which has empty cells, get returned the voxel of a point on the box's
\* minimum x face.
C2_Witness ==
  /\ shot.op = "get"
  /\ scene_bb.extents[3] > scene_bb.extents[1]
  /\ IsSome(shot.ret)
  /\ shot.pos[1] = min(scene_bb)[1]
  /\ \E p, q \in IterPoints(scene_bb) :
       /\ IsSome(lookup(generator, p))
       /\ IsSome(lookup(generator, q))
       /\ lookup(generator, p) # lookup(generator, q)
  /\ \E p \in IterPoints(scene_bb) : p[3] > 0 /\ lookup(generator, p) = None

(***************************************************************************)
(* C3.                                                                     *)
(***************************************************************************)
\* C3 as claimed: with the dense and the sparse store built by from_voxels
\* from the same generator and box, every ray that intersects the scene box
\* gets the same result from both: the same voxel, or no hit from both.
C3_BackendsAgree ==
  ( /\ IsSome(sparse)
    /\ dense = Some(DenseStorage_from_voxels(generator, scene_bb))
    /\ shot.op \in {"sparse_trace", "dense_trace"}
    /\ IsSome(intersection(scene_bb, shot.ray, TraceRange)) )
  => Octree_trace(Unwrap(sparse), shot.ray) = Chunk_trace(Unwrap(dense), shot.ray)

(***************************************************************************)
(* C5.                                                                     *)
(***************************************************************************)
\* Grid index of the k-th cell (k = 1 at the entry face) on the path of an
\* axis-aligned ray through the box: the transverse indices are those of
\* the cell [i, i + 1) that holds the ray's coordinate.
GridCellAlong(bb, ray, k) ==
  LET a == MovingAxis(ray)
      size == VSub(max(bb), min(bb))
  IN [b \in 1..3 |->
        IF b = a
        THEN (IF ray.dir[a] > 0 THEN k - 1 ELSE size[a] - k)
        ELSE (ray.origin[b] - FP * min(bb)[b]) \div FP]

\* Content of a grid cell of the chunk: the entry at the cell's linear
\* position z + width * (y + height * x), nothing when there is none.
CellContent(chunk, idx) ==
  LET got == DataGet(chunk.data, LinearIndex(chunk.bb, idx))
  IN IF IsSome(got) THEN Unwrap(got) ELSE None

PathLength(bb, ray) == VSub(max(bb), min(bb))[MovingAxis(ray)]

\* The cells on the ray's path, by entry order, that hold a voxel.
DenseOccupiedAlong(chunk, ray) ==
  {k \in 1..PathLength(chunk.bb, ray) :
     IsSome(CellContent(chunk, GridCellAlong(chunk.bb, ray, k)))}

\* C5: for an axis-aligned ray with half-integer transverse coordinates that
\* enters the chunk's box from outside and passes through at least one
\* occupied cell, Chunk::trace returns the voxel of the first occupied cell
\* in the order the ray passes the cells, beginning with the cell of the
\* entry point.
C5_TraceFirstOccupiedCell ==
  (shot.op = "dense_trace" /\ DenseOccupiedAlong(Unwrap(dense), shot.ray) # {}) =>
    LET ks == DenseOccupiedAlong(Unwrap(dense), shot.ray)
        first == CHOOSE k \in ks : \A j \in ks : k <= j
    IN shot.ret = CellContent(Unwrap(dense), GridCellAlong(scene_bb, shot.ray, first))

\* Witness: a ray in the negative direction passed an empty cell, then two
\* occupied cells with different voxels, and trace returned the first.
C5_Witness ==
  /\ shot.op = "dense_trace"
  /\ shot.ray.dir[MovingAxis(shot.ray)] < 0
  /\ LET ks == DenseOccupiedAlong(Unwrap(dense), shot.ray)
     IN /\ Cardinality(ks) >= 2
        /\ 1 \notin ks
        /\ 2 \in ks
        /\ \E k \in ks : CellContent(Unwrap(dense), GridCellAlong(scene_bb, shot.ray, k))
                           # CellContent(Unwrap(dense), GridCellAlong(scene_bb, shot.ray, 2))
        /\ shot.ret = CellContent(Unwrap(dense), GridCellAlong(scene_bb, shot.ray, 2))
        /\ IsSome(shot.ret)

(***************************************************************************)
(* C8.                                                                     *)
(***************************************************************************)
Cells == 0..(Len(fb.pixels) - 1)

\* The tasks whose remaining range [start, end) holds cell i.
Holders(i) == {k \in 1..Len(tasks) : tasks[k].start <= i /\ i < tasks[k].end}

\* C8: however the producer is split and the tasks interleave, with next and
\* next_back mixed, the tasks' ranges partition the cells not yet yielded;
\* no cell is yielded twice, a cell is yielded with x = i mod width and
\* y = i div width, which pixel_mut maps back to that cell; a store changes
\* only the cell of a pixel some task holds, and no two tasks hold the same
\* cell; when the render has returned every cell was yielded exactly once.
C8_CellsYieldedOnce ==
  /\ [](/\ \A i \in Cells :
             /\ Len(yielded[i]) <= 1
             /\ Cardinality(Holders(i)) = (IF yielded[i] = <<>> THEN 1 ELSE 0)
             /\ \A n \in 1..Len(yielded[i]) :
                  /\ yielded[i][n] = <<i % fb.width, i \div fb.width>>
                  /\ yielded[i][n][1] < fb.width /\ yielded[i][n][2] < fb.height
                  /\ pixel_mut(fb, yielded[i][n][1], yielded[i][n][2]) = i
        /\ \A j, k \in 1..Len(tasks) :
             (j # k /\ IsSome(tasks[j].pixel) /\ IsSome(tasks[k].pixel))
               => Unwrap(tasks[j].pixel).value # Unwrap(tasks[k].pixel).value
        /\ pc \in {"rendered", "export", "done"} =>
             \A i \in Cells : Len(yielded[i]) = 1)
  /\ [][\A i \in Cells :
          fb'.pixels[i + 1] # fb.pixels[i + 1] =>
            \E k \in 1..Len(tasks) :
              /\ IsSome(tasks[k].pixel)
              /\ Unwrap(tasks[k].pixel).value = i
              /\ pixel_mut(fb, Unwrap(tasks[k].pixel).x, Unwrap(tasks[k].pixel).y) = i]_vars

\* Witness: in a 3 x 2 framebuffer split into three tasks, one task holds a
\* pixel of row 1 it took with next_back while another holds one it took
\* with next.
C8_Witness ==
  /\ fb.width = 3
  /\ fb.height = 2
  /\ Len(tasks) = 3
  /\ \E j, k \in 1..Len(tasks) :
       /\ j # k
       /\ IsSome(tasks[j].pixel)
       /\ Unwrap(tasks[j].pixel).value = tasks[j].end
       /\ Unwrap(tasks[j].pixel).y = 1
       /\ IsSome(tasks[k].pixel)
       /\ Unwrap(tasks[k].pixel).value = tasks[k].start - 1

(***************************************************************************)
(* C9.                                                                     *)
(***************************************************************************)
\* The word r * 2^24 + g * 2^16 + b * 2^8 + 255, as its two halves.
WordOfRgb(color) == U32(256 * color[1] + color[2], 256 * color[3] + 255)

\* render_pixel has run for cell i: it was yielded and no task holds it.
Rendered(i) ==
  /\ yielded[i] # <<>>
  /\ \A k \in 1..Len(tasks) :
       IsSome(tasks[k].pixel) => Unwrap(tasks[k].pixel).value # i

\* export_image has copied pixel (x, y).
Exported(x, y) == pc \in {"export", "done"} /\ x * fb.height + y < cursor

\* C9: for every pixel (x, y) that was rendered, the cell holds
\* r<<24 | g<<16 | b<<8 | 0xFF if its primary ray hit a voxel of colour
\* (r, g, b) and still holds 0 if it hit nothing; the exported pixel is
\* (r, g, b, 255), respectively (0, 0, 0, 0); when the image is saved every
\* pixel has been exported; no cell ever holds a non-zero word whose alpha
\* byte is not 0xFF.
C9_PixelPacking ==
  /\ \A i \in Cells : fb.pixels[i + 1] = U32(0, 0) \/ fb.pixels[i + 1].lo % 256 = 255
  /\ \A x \in 0..(fb.width - 1), y \in 0..(fb.height - 1) :
       LET i == y * fb.width + x
           voxel == hits[<<x, y>>]
       IN /\ Rendered(i) =>
               fb.pixels[i + 1] = (IF IsSome(voxel) THEN WordOfRgb(Unwrap(voxel).color)
                                                   ELSE U32(0, 0))
          /\ Exported(x, y) =>
               img[<<x, y>>] = (IF IsSome(voxel) THEN Unwrap(voxel).color \o <<255>>
                                                 ELSE <<0, 0, 0, 0>>)
          /\ pc = "done" => Exported(x, y)

\* Witness: a saved 3 x 2 image with a pixel that hit nothing, a snow pixel
\* and a pixel that hit a black voxel.
C9_Witness ==
  /\ pc = "done"
  /\ fb.width = 3
  /\ fb.height = 2
  /\ \E p \in DOMAIN img : hits[p] = None /\ img[p] = <<0, 0, 0, 0>>
  /\ \E p \in DOMAIN img : img[p] = <<240, 240, 255, 255>>
  /\ \E p \in DOMAIN img : img[p] = <<0, 0, 0, 255>>
  /\ \E i \in Cells : fb.pixels[i + 1] = U32(61680, 65535)

(***************************************************************************)
(* C10.                                                                    *)
(***************************************************************************)
\* C10: render returns only when no pixel task is left and every cell was
\* yielded; export_image runs after that: each of its reads happens with no
\* task left, and from the moment render has returned no cell is stored to.
C10_ExportAfterJoin ==
  /\ [](pc \in {"rendered", "export", "done"} =>
          /\ tasks = <<>>
          /\ \A i \in Cells : Rendered(i))
  /\ [][(cursor' # cursor \/ img' # img) => (tasks = <<>> /\ fb' = fb)]_vars
  /\ [][(pc \in {"rendered", "export", "done"}) => fb' = fb]_vars

\* Witness: the exporter has read cells of a 3 x 2 framebuffer that holds
\* stored colours, and has cells left to read.
C10_Witness ==
  /\ pc = "export"
  /\ fb.width = 3
  /\ fb.height = 2
  /\ cursor > 0
  /\ cursor < 6
  /\ \E i \in Cells : fb.pixels[i + 1] # U32(0, 0)

(***************************************************************************)
(* C11.                                                                    *)
(***************************************************************************)
\* C11: with a position flag of a number of components other than 3, main
\* returns an error and the process exits non-zero before any scene is
\* built, any pixel rendered or any file written; without the flag the
\* camera position is size * (1, 1, 1) (with three components, those).
C11_BadPositionExitsEarly ==
  /\ (IsSome(cli.position) /\ Len(Unwrap(cli.position)) # 3) =>
       /\ proc.effects = {}
       /\ proc.pc \in {"start", "exit"}
       /\ proc.pc = "exit" =>
            /\ proc.main_ret = "Err"
            /\ IsSome(proc.exit_code) /\ Unwrap(proc.exit_code) # 0
  /\ (cli.position = None /\ IsSome(proc.camera_pos)) =>
       Unwrap(proc.camera_pos) = <<FP * cli.size, FP * cli.size, FP * cli.size>>
  /\ (IsSome(cli.position) /\ IsSome(proc.camera_pos)) =>
       Unwrap(proc.camera_pos) = [a \in 1..3 |-> FP * Unwrap(cli.position)[a]]

\* Witness: a position of two components made the process exit with an error.
C11_Witness ==
  /\ IsSome(cli.position)
  /\ Len(Unwrap(cli.position)) = 2
  /\ proc.pc = "exit"
  /\ proc.main_ret = "Err"
  /\ proc.exit_code = Some(EXIT_ERR)
  /\ proc.effects = {}

(***************************************************************************)
(* C12.                                                                    *)
(***************************************************************************)
\* C12 as claimed: when writing the image file fails, export_image returns
\* an error result to its caller and the process exits non-zero.
C12_SaveFailureIsReturned ==
  "save_failed" \in proc.effects =>
    /\ proc.export_ret = "Err"
    /\ IsSome(proc.exit_code) /\ Unwrap(proc.exit_code) # 0

(***************************************************************************)
(* C13.                                                                    *)
(***************************************************************************)
PowersOfTwo == {2 ^ n : n \in 0..30}

\* C13 as claimed: next_pow2 returns the cube around the same origin whose
\* extent is the smallest power of two greater than or equal to the largest
\* extent of the box.
C13_NextPow2AtLeast ==
  probe.op = "next_pow2" =>
    LET k == MaxElement(box.extents)
        P == CHOOSE q \in PowersOfTwo : q >= k /\ \A r \in PowersOfTwo : r >= k => q <= r
    IN probe.ret = IAabb(box.origin, <<P, P, P>>)

\* C13, amended: next_pow2 returns the cube around the same origin whose
\* extent is the smallest power of two strictly greater than the largest
\* extent of the box (for extents below 2^30).
C13_NextPow2Greater ==
  probe.op = "next_pow2" =>
    LET k == MaxElement(box.extents)
        P == CHOOSE q \in PowersOfTwo : q > k /\ \A r \in PowersOfTwo : r > k => q <= r
    IN probe.ret = IAabb(box.origin, <<P, P, P>>)

\* Witness: next_pow2 of a box whose largest extent 5 is no power of two,
\* and whose extents differ, gave the cube of extent 8.
C13_Witness ==
  /\ probe.op = "next_pow2"
  /\ box.extents = <<3, 1, 5>>
  /\ probe.ret.extents = <<8, 8, 8>>

(***************************************************************************)
(* C14.                                                                    *)
(***************************************************************************)
\* C14: for idx in 0..7, bb.octant(idx) has the extents of bb halved by
\* integer division, and its origin is that of bb moved by the new extent on
\* each axis, up where the axis bit of idx is 1 and down where it is 0; an
\* idx above 7 is rejected.
C14_OctantGeometry ==
  probe.op = "octant" =>
    IF probe.idx <= 7
    THEN /\ ~probe.panicked
         /\ IsSome(probe.ret)
         /\ \A a \in 1..3 :
              LET e == box.extents[a] \div 2
                  bit == (probe.idx \div (2 ^ (a - 1))) % 2
              IN /\ Unwrap(probe.ret).extents[a] = e
                 /\ Unwrap(probe.ret).origin[a] =
                      (IF bit = 1 THEN box.origin[a] + e ELSE box.origin[a] - e)
    ELSE probe.panicked /\ probe.ret = None

\* Witness: octant 5 of a box with odd extents.
C14_Witness ==
  /\ probe.op = "octant"
  /\ probe.idx = 5
  /\ box = IAabb(<<1, -2, 3>>, <<3, 1, 5>>)
  /\ probe.ret = Some(IAabb(<<2, -2, 5>>, <<1, 0, 2>>))

\* Witness: index 8 is rejected.
C14_WitnessRejected ==
  /\ probe.op = "octant"
  /\ probe.idx = 8
  /\ probe.panicked

(***************************************************************************)
(* C15.                                                                    *)
(***************************************************************************)
LexLess(p, q) ==
  \/ p[1] < q[1]
  \/ p[1] = q[1] /\ p[2] < q[2]
  \/ p[1] = q[1] /\ p[2] = q[2] /\ p[3] < q[3]

\* C15: bb.iter() yields exactly width * height * length points, pairwise
\* distinct, each with min <= p < max on every axis, in lexicographic order
\* of (x, y, z), z changing fastest.
C15_IterEnumeratesBox ==
  probe.op = "iter" =>
    /\ Len(probe.ret) = width(box) * height(box) * length(box)
    /\ \A k \in 1..Len(probe.ret) : \A a \in 1..3 :
         min(box)[a] <= probe.ret[k][a] /\ probe.ret[k][a] < max(box)[a]
    /\ \A k \in 1..(Len(probe.ret) - 1) : LexLess(probe.ret[k], probe.ret[k + 1])
    /\ Cardinality({probe.ret[k] : k \in 1..Len(probe.ret)}) = Len(probe.ret)

\* Witness: the 6 * 2 * 10 points of a box with unequal extents.
C15_Witness ==
  /\ probe.op = "iter"
  /\ box = IAabb(<<1, -2, 3>>, <<3, 1, 5>>)
  /\ Len(probe.ret) = 120
  /\ probe.ret[1] = <<-2, -3, -2>>
  /\ probe.ret[2] = <<-2, -3, -1>>
  /\ probe.ret[11] = <<-2, -2, -2>>

(***************************************************************************)
(* C16.                                                                    *)
(***************************************************************************)
\* C16: lookup returns a voxel exactly when 0 <= z <= h, h in [0, 100]
\* being the terrain height of the column; the colour depends on h only:
\* blue below 0.3 of the maximum height, green below 0.6, gray below 0.8,
\* white otherwise.
C16_LookupBands ==
  shot.op = "lookup" =>
    LET h == generator[<<shot.pos[1], shot.pos[2]>>]
        z == shot.pos[3]
    IN /\ h \in 0..100
       /\ IsSome(shot.ret) <=> (0 <= z /\ z <= h)
       /\ IsSome(shot.ret) =>
            Unwrap(shot.ret) =
              [color |-> IF h < 30 THEN <<0, 80, 200>>
                         ELSE IF h < 60 THEN <<50, 170, 50>>
                         ELSE IF h < 80 THEN <<130, 130, 130>>
                         ELSE <<240, 240, 255>>]

\* Witness: in a column of height 60, the first gray height, the lookup
\* of a position in the blue range of heights returned a gray voxel.
C16_Witness ==
  /\ shot.op = "lookup"
  /\ generator[LookupColumn] = 60
  /\ shot.pos[3] = 2
  /\ shot.ret = Some(Voxel(MOUNTAIN_GRAY))

\* Witness: nothing above the terrain.
C16_WitnessAbove ==
  /\ shot.op = "lookup"
  /\ generator[LookupColumn] = 29
  /\ shot.pos[3] = 30
  /\ shot.ret = None

(***************************************************************************)
(* C17.                                                                    *)
(***************************************************************************)
\* Two recorded calls for the same pixel returned the same ray.
SamePixelSameRay ==
  \A k, l \in 1..Len(rays) :
    (rays[k].i = rays[l].i /\ rays[k].j = rays[l].j) => rays[k].ray = rays[l].ray

\* C17 as claimed: get_ray(i, j) is the ray from lookfrom through
\* p00 + i * delta_u + j * delta_v, and two calls with the same camera and
\* the same (i, j) return the same ray.
C17_GetRayDeterministic ==
  /\ \A k \in 1..Len(rays) :
       rays[k].ray =
         Ray(as_vec3a(camera.center),
             VSub(VAdd(VAdd(as_vec3a(camera.pixel00_loc),
                            VScale(rays[k].i, camera.pixel_delta_u)),
                       VScale(rays[k].j, camera.pixel_delta_v)),
                  as_vec3a(camera.center)))
  /\ SamePixelSameRay

(***************************************************************************)
(* C18.                                                                    *)
(***************************************************************************)
\* The voxel the tree holds in slot leaf_slot of the leaf that hangs in slot
\* root_slot of a root branch.
VoxelUnderRoot(tree, root_slot, leaf_slot) ==
  LET root == NodeAt(tree.nodes, 0)
  IN IF root.kind = "Branch" /\ IsSome(root.slots[root_slot])
     THEN LET child == NodeAt(tree.nodes, Unwrap(root.slots[root_slot]))
          IN IF child.kind = "Leaf" THEN child.slots[leaf_slot] ELSE None
     ELSE None

BitsChanged(i, j) == {a \in 0..2 : Bit(i, a) # Bit(j, a)}

\* C19: in the traversal of one node at most four of its eight octant
\* slots are examined; the examined octants are pairwise distinct, each
\* differs from the one before it in exactly one axis bit, and no axis bit
\* is flipped more than once.
C19_AtMostFourOctants ==
  last.op = "node_trace" =>
    LET v == last.visits
    IN /\ Len(v) >= 1 /\ Len(v) <= 4
       /\ \A k \in 1..Len(v) : v[k] \in 0..7
       /\ \A k, l \in 1..Len(v) : k # l => v[k] # v[l]
       /\ \A k \in 1..(Len(v) - 1) : Cardinality(BitsChanged(v[k], v[k + 1])) = 1
       /\ \A k, l \in 1..(Len(v) - 1) :
            k # l => BitsChanged(v[k], v[k + 1]) # BitsChanged(v[l], v[l + 1])

\* Witness: a traversal that crossed all three planes, two of them at the
\* same distance, examined four octants of a leaf and found a voxel in the
\* fourth.
C19_Witness ==
  /\ last.op = "node_trace"
  /\ Len(last.visits) = 4
  /\ last.tests[0] = last.tests[1]
  /\ IsSome(last.ret)
  /\ last.visits[1] = 2
  /\ last.visits[4] = 5

(***************************************************************************)
(* C20.                                                                    *)
(***************************************************************************)
\* The tree with slot idx of branch n emptied.
Pruned(tree, n, idx) == [tree EXCEPT !.nodes[n + 1].slots[idx] = None]

\* C20: when the recursion into an occupied child returns no voxel, the
\* parent goes on as if the slot were empty: the trace of the tree with
\* that slot emptied returns the same result, and it examines the same
\* octants of the root in the same order.
C20_FailedChildAsEmptySlot ==
  last.op = "trace" =>
    \A f \in FailedRecursions(octree, last.ray) :
      /\ Octree_trace(Pruned(octree, f[1], f[2]), last.ray) = last.ret
      /\ RootVisits(Pruned(octree, f[1], f[2]), last.ray) = RootVisits(octree, last.ray)

\* Witness: a trace entered an occupied child of the root, found nothing
\* there, and returned the voxel of a later octant.
C20_Witness ==
  /\ last.op = "trace"
  /\ IsSome(last.ret)
  /\ \E f \in FailedRecursions(octree, last.ray) : f[1] = 0
  /\ Len(RootVisits(octree, last.ray)) = 2

(***************************************************************************)
(* C21.                                                                    *)
(***************************************************************************)
\* The branch slots (n, i) of the arena that hold child index c.
Referrers(nodes, c) ==
  {<<n, i>> \in (0..(Len(nodes) - 1)) \X (0..7) :
     NodeAt(nodes, n).kind = "Branch" /\ NodeAt(nodes, n).slots[i] = Some(c)}

\* C21: after any sequence of inserts the arena is a tree rooted at index 0:
\* every child index in a branch slot is non-zero, below nodes.len() and
\* above the index of the branch holding it, and every node other than the
\* root is referenced by exactly one branch slot.
C21_ArenaIsTree ==
  /\ Len(octree.nodes) >= 1
  /\ \A n \in 0..(Len(octree.nodes) - 1) : \A i \in 0..7 :
       LET node == NodeAt(octree.nodes, n)
       IN (node.kind = "Branch" /\ IsSome(node.slots[i])) =>
            /\ Unwrap(node.slots[i]) # 0
            /\ Unwrap(node.slots[i]) < Len(octree.nodes)
            /\ Unwrap(node.slots[i]) > n
  /\ Referrers(octree.nodes, 0) = {}
  /\ \A c \in 1..(Len(octree.nodes) - 1) :
       Cardinality(Referrers(octree.nodes, c)) = 1

\* Witness: two inserts went through the same child of the root of a tree
\* of depth two and ended in two leaves: two branches, two leaves.
C21_Witness ==
  /\ last.op = "insert"
  /\ calls = 2
  /\ Len(octree.nodes) = 4
  /\ Cardinality({i \in 0..7 : IsSome(NodeAt(octree.nodes, 0).slots[i])}) = 1

(***************************************************************************)
(* C22.                                                                    *)
(***************************************************************************)
RECURSIVE Log2(_)
Log2(n) == IF n <= 1 THEN 0 ELSE 1 + Log2(n \div 2)

\* The position a leaf of box bb keeps in slot i.
SlotPosition(bb, i) == VAdd(bb.origin, <<Bit(i, 0), Bit(i, 1), Bit(i, 2)>>)

\* Node n, taken with the box bb its path from the root implies, at the
\* given depth: leaf exactly for extents (1, 1, 1), leaves at depth
\* leaf_depth holding in each slot what was inserted at the slot's position
\* of bb, children of a branch alike with the octant boxes.
RECURSIVE WellShaped(_, _, _, _, _)
WellShaped(nodes, n, bb, depth, leaf_depth) ==
  LET node == NodeAt(nodes, n)
  IN /\ node.kind = "Leaf" <=> bb.extents = <<1, 1, 1>>
     /\ node.kind \in {"Leaf", "Branch"}
     /\ \A a \in 1..3 : bb.extents[a] >= 1
     /\ IF node.kind = "Leaf"
        THEN /\ depth = leaf_depth
             /\ \A i \in 0..7 :
                  IsSome(node.slots[i]) =>
                    /\ SlotPosition(bb, i) \in DOMAIN inserted
                    /\ inserted[SlotPosition(bb, i)] = node.slots[i]
        ELSE \A i \in 0..7 :
               IsSome(node.slots[i]) =>
                 WellShaped(nodes, Unwrap(node.slots[i]), octant(bb, i),
                            depth + 1, leaf_depth)

\* C22: after any sequence of inserts, every reachable node has the kind of
\* the box implied by its path (the octant of its parent's box for the slot
\* that references it): Leaf iff extents (1, 1, 1), Branch otherwise; the
\* root is a Branch, and all leaves are log2(P) levels below the root, P the
\* root's extent.
C22_KindsFollowBoxes ==
  /\ NodeAt(octree.nodes, 0).kind = "Branch"
  /\ WellShaped(octree.nodes, 0, octree.bb, 0, Log2(CubeP(octree.bb)))

\* Witness: a tree of extent 4 with a leaf two levels down that holds the
\* last voxel inserted.
C22_Witness ==
  /\ last.op = "insert"
  /\ last.ret
  /\ CubeP(octree.bb) = 4
  /\ \E i, j, k \in 0..7 :
       LET root == NodeAt(octree.nodes, 0)
       IN /\ IsSome(root.slots[i])
          /\ LET mid == NodeAt(octree.nodes, Unwrap(root.slots[i]))
             IN /\ mid.kind = "Branch"
                /\ IsSome(mid.slots[j])
                /\ NodeAt(octree.nodes, Unwrap(mid.slots[j])).kind = "Leaf"
                /\ NodeAt(octree.nodes, Unwrap(mid.slots[j])).slots[k] = Some(last.voxel)

(***************************************************************************)
(* C23.                                                                    *)
(***************************************************************************)
\* Every box on the descent from box bb towards pos accepts pos, down to
\* the unit box.
RECURSIVE DescentAccepts(_, _)
DescentAccepts(bb, pos) ==
  /\ IsSome(index_of(bb, pos))
  /\ is_unit(bb) \/ DescentAccepts(octant(bb, Unwrap(index_of(bb, pos))), pos)

\* C23 as claimed: for every box bb with positive extents, every position
\* produced by bb.iter() is accepted by index_of at the root of
\* Octree::new(bb) and at every node of its descent, so the insert returns
\* true and the assertion of Octree::from_voxels does not fire.
C23_IterPointsAccepted ==
  (last.op = "set" /\ InIter(box, last.pos)) =>
    /\ last.ret
    /\ ~last.panicked
    /\ DescentAccepts(octree.bb, last.pos)

(***************************************************************************)
(* C24.                                                                    *)
(***************************************************************************)
\* C24 as claimed: when the DDA of Chunk::trace steps past a face of the
\* box the trace ends with no hit, so a voxel is only ever returned from a
\* cell whose grid index lies in [0, width) x [0, height) x [0, length).
C24_HitCellInsideGrid ==
  (shot.op = "dense_trace" /\ IsSome(shot.ret)) =>
    LET cell == Chunk_hit_cell(Unwrap(dense), shot.ray)
    IN /\ IsSome(cell)
       /\ Unwrap(cell)[1] \in 0..(width(scene_bb) - 1)
       /\ Unwrap(cell)[2] \in 0..(height(scene_bb) - 1)
       /\ Unwrap(cell)[3] \in 0..(length(scene_bb) - 1)

(***************************************************************************)
(* C25.                                                                    *)
(***************************************************************************)
\* The slab interval of an axis-aligned ray against bb, as <<t0, t1>>, or
\* <<>> when the ray's line misses the box (faces included in the box).
SlabInterval(bb, ray) ==
  LET a == MovingAxis(ray)
      lo == as_vec3a(min(bb))
      hi == as_vec3a(max(bb))
      t_lo == (lo[a] - ray.origin[a]) * ray.dir[a]
      t_hi == (hi[a] - ray.origin[a]) * ray.dir[a]
  IN IF \A b \in (1..3) \ {a} : lo[b] <= ray.origin[b] /\ ray.origin[b] <= hi[b]
     THEN <<IF t_lo <= t_hi THEN t_lo ELSE t_hi, IF t_lo <= t_hi THEN t_hi ELSE t_lo>>
     ELSE <<>>

\* C25 as claimed: intersection returns the slab interval clipped against
\* t_range: a returned (t_enter, t_exit) has t_range.start <= t_enter <=
\* t_exit <= t_range.end, and nothing is returned iff the slab interval is
\* empty or disjoint from t_range.
C25_IntersectionClipped ==
  probe.op = "intersection" =>
    LET slab == SlabInterval(box, probe.ray)
        disjoint == slab = <<>> \/ slab[1] > probe.range.end
                      \/ slab[2] < probe.range.start
    IN /\ probe.ret = None <=> disjoint
       /\ IsSome(probe.ret) =>
            /\ probe.range.start <= Unwrap(probe.ret).start
            /\ Unwrap(probe.ret).start <= Unwrap(probe.ret).end
            /\ Unwrap(probe.ret).end <= probe.range.end

(***************************************************************************)
(* C26.                                                                    *)
(***************************************************************************)
\* The point where a ray that moves along axis a (1..3) only meets the
\* centre plane of that axis: the ray origin with its a-th coordinate
\* replaced by that of the box origin.
CentreCrossing(bb, ray, a) ==
  [b \in 1..3 |-> IF b = a THEN FP * bb.origin[a] ELSE ray.origin[b]]

\* The crossing point lies within the box on the two axes other than a,
\* faces included.
CrossingWithin(bb, ray, a) ==
  \A b \in (1..3) \ {a} :
    /\ FP * min(bb)[b] <= CentreCrossing(bb, ray, a)[b]
    /\ CentreCrossing(bb, ray, a)[b] <= FP * max(bb)[b]

\* Distance from the ray origin to the centre plane of axis a.
CentreDistance(bb, ray, a) == Abs(FP * bb.origin[a] - ray.origin[a])

\* C26 as claimed: plane_intersections returns a value for axis a exactly
\* when d_a # 0, the sign of d_a equals the sign of origin_a - o_a, and the
\* crossing point is within the box on the other two axes; every value is a
\* positive distance; an axis-aligned ray gets a value on its own axis only.
C26_PlaneAheadStrictly ==
  probe.op = "plane_intersections" =>
    \A a \in 1..3 :
      LET d == probe.ray.dir[a]
          diff == FP * box.origin[a] - probe.ray.origin[a]
      IN /\ IsSome(probe.ret[a - 1]) <=>
              /\ d # 0
              /\ Sign(d) = Sign(diff)
              /\ CrossingWithin(box, probe.ray, a)
         /\ IsSome(probe.ret[a - 1]) => Unwrap(probe.ret[a - 1]) > 0

\* C26, amended: a value is returned for axis a exactly when d_a > 0 and
\* origin_a - o_a >= 0, or d_a < 0 and origin_a - o_a < 0, and the crossing
\* point is within the box on the other two axes, faces included; the value
\* is the distance from the ray origin to the centre plane, which is 0 for
\* a ray that starts on the plane and moves in the positive direction; an
\* axis-aligned ray gets a value on its own axis only.
C26_PlaneAheadOrAtOrigin ==
  probe.op = "plane_intersections" =>
    \A a \in 1..3 :
      LET d == probe.ray.dir[a]
          diff == FP * box.origin[a] - probe.ray.origin[a]
      IN /\ IsSome(probe.ret[a - 1]) <=>
              /\ (d > 0 /\ diff >= 0) \/ (d < 0 /\ diff < 0)
              /\ CrossingWithin(box, probe.ray, a)
         /\ IsSome(probe.ret[a - 1]) =>
              /\ Unwrap(probe.ret[a - 1]) = CentreDistance(box, probe.ray, a)
              /\ Unwrap(probe.ret[a - 1]) >= 0
              /\ a = MovingAxis(probe.ray)

\* A ray that starts on the centre plane of its axis, moves in the positive
\* direction, crosses on a face of the box, and gets the distance 0.
C26_Witness ==
  /\ probe.op = "plane_intersections"
  /\ \E a \in 1..3 :
       /\ probe.ray.dir[a] = 1
       /\ probe.ray.origin[a] = FP * box.origin[a]
       /\ \E b \in (1..3) \ {a} : probe.ray.origin[b] = FP * max(box)[b]
       /\ probe.ret[a - 1] = Some(0)

\* A ray that starts one unit before the box and gets the distance to the
\* centre plane on its own axis.
C26_WitnessAhead ==
  /\ probe.op = "plane_intersections"
  /\ \E a \in 1..3 :
       /\ probe.ray.dir[a] = 1
       /\ probe.ray.origin[a] = FP * (min(box)[a] - 1)
       /\ IsSome(probe.ret[a - 1])
       /\ Unwrap(probe.ret[a - 1]) = FP * (box.extents[a] + 1)

(***************************************************************************)
(* C27.                                                                    *)
(***************************************************************************)
\* C27 as claimed: for every box, DenseStorage::from_voxels stores lookup(p)
\* at the linear position that Chunk::trace reads for the cell p - min: the
\* k-th point of bb.iter() (k from 0) is the point whose linear index
\* z + width * (y + height * x) is k.
C27_LayoutMatchesTrace ==
  (IsSome(dense) /\ shot.op = "from_voxels") =>
    LET chunk == Unwrap(dense)
        points == iter(chunk.bb)
    IN \A k \in 1..Len(points) :
         LET cell == VSub(points[k], min(chunk.bb))
         IN /\ LinearIndex(chunk.bb, cell) = k - 1
            /\ DataGet(chunk.data, LinearIndex(chunk.bb, cell))
                 = Some(lookup(generator, points[k]))

(***************************************************************************)
(* C28.                                                                    *)
(***************************************************************************)
\* The cell that spans lo..hi (fixed point) along the ray's axis is not
\* behind the ray origin: it reaches the half line t >= 0.
InFront(ray, lo, hi) ==
  LET a == MovingAxis(ray)
  IN IF ray.dir[a] > 0 THEN hi[a] >= ray.origin[a] ELSE lo[a] <= ray.origin[a]

\* The ray's line passes through the cell lo..hi on the two other axes.
OnLine(ray, lo, hi) ==
  \A b \in (1..3) \ {MovingAxis(ray)} :
    lo[b] <= ray.origin[b] /\ ray.origin[b] <= hi[b]

\* C28 as claimed: every voxel returned by Octree::trace or Chunk::trace
\* lies in front of the ray origin, also for a ray that starts inside the
\* box: the octree returns a voxel inserted at a cell (p - 1, p] on the ray
\* that is not behind the origin, and the chunk returns the voxel of a cell
\* min + idx .. min + idx + 1 that is not behind the origin.
C28_HitInFrontOfOrigin ==
  /\ (last.op = "trace" /\ IsSome(last.ret)) =>
       \E p \in DOMAIN inserted :
         /\ inserted[p] = last.ret
         /\ OnLine(last.ray, as_vec3a(VSub(p, <<1, 1, 1>>)), as_vec3a(p))
         /\ InFront(last.ray, as_vec3a(VSub(p, <<1, 1, 1>>)), as_vec3a(p))
  /\ (shot.op = "dense_trace" /\ IsSome(shot.ret)) =>
       LET chunk == Unwrap(dense)
           cell == VAdd(min(chunk.bb), Unwrap(Chunk_hit_cell(chunk, shot.ray)))
       IN InFront(shot.ray, as_vec3a(cell), as_vec3a(VAdd(cell, <<1, 1, 1>>)))

(***************************************************************************)
(* C29.                                                                    *)
(***************************************************************************)
\* C29 as claimed: for every largest extent k in 1 .. 2^31 - 1 the extent P
\* that next_pow2 computes in 32-bit arithmetic is a power of two and is at
\* least k.
C29_NextPow2Covers ==
  probe.op = "next_pow2" =>
    /\ probe.ret.extents[1] >= MaxElement(box.extents)
    /\ probe.ret.extents[1] \in PowersOfTwo

(***************************************************************************)
(* C30.                                                                    *)
(***************************************************************************)
\* All extents of bb are greater than 0.
PositiveExtents(bb) == \A a \in 1..3 : bb.extents[a] > 0

\* C30 as claimed: every box the program constructs or computes has all
\* extents greater than 0: the box next_pow2 returns, the box of the octree
\* built on it, and the boxes Octree::get computes on its way to a leaf.
C30_ExtentsStayPositive ==
  /\ PositiveExtents(octree.bb)
  /\ probe.op = "next_pow2" => PositiveExtents(probe.ret)
  /\ last.op = "get" =>
       \A k \in 1..Len(GetBoxes(octree.nodes, 0, octree.bb, last.pos)) :
         PositiveExtents(GetBoxes(octree.nodes, 0, octree.bb, last.pos)[k])

====
